---- MODULE Spec2Model ----
(***************************************************************************)
(* Model of the fridge-app state container (src/src/store/useFridgeStore.ts *)
(* and the helpers of types/fridge it calls).                               *)
(*                                                                          *)
(* The store is a React hook: every action queues a state updater with     *)
(* setState; React applies the queued updaters, in order, at the next      *)
(* render, and runs the persist-foods effect after a render whose          *)
(* state.foods is a new array.  The model keeps                            *)
(*   state  - the state of the last render (what the components see),      *)
(*   next   - the queued updaters applied, in order, to state (the state   *)
(*            the next render commits),                                    *)
(*   queued - the number of updaters queued since the last render,         *)
(* and the localStorage records the store reads and writes.                *)
(***************************************************************************)
EXTENDS Integers, Sequences, FiniteSets, TLC

VARIABLES
  state,            \* FridgeState of the last render
  next,             \* FridgeState after the queued updaters
  queued,           \* number of updaters queued since the last render
  foodsChanged,     \* next.foods is a new array (not the array of state.foods)
  effectPending,    \* the persist-foods effect of the last render has not run yet
  storage,          \* localStorage: the two records of the application
  now,              \* last value read from Date.now()
  last,             \* the last action dispatched, with its arguments
  dispatched,       \* number of actions dispatched since start
  unsavedQueued,    \* addFood/updateFood/deleteFood queued, not rendered
  unsavedCommitted, \* addFood/updateFood/deleteFood rendered, not yet written
  ui,               \* local state of the view components (overlays, host time zone)
  fn                \* the last call of a helper function: name, arguments, result

vars == <<state, next, queued, foodsChanged, effectPending, storage, now, last,
          dispatched, unsavedQueued, unsavedCommitted, ui, fn>>

---------------------------------------------------------------------------
(* Bounds of the model *)

MaxDispatch == 2      \* actions dispatched in one run
StartNow == 35        \* Date.now() at start
MaxNow == 36          \* largest Date.now() read

(* JavaScript values *)
null == "null"
undefined == "undefined"
None == <<>>                  \* null, for a field that holds an object
Some(x) == <<x>>
DOT == 0 - 1                  \* the character "." among base-36 digits

Range(s) == {s[i] : i \in DOMAIN s}

---------------------------------------------------------------------------
(* types/fridge *)

Styles == {"retro", "modern", "cute"}
SetupSteps == {"welcome", "template", "compartments", "style", null}
CameraViews == {"default", "top"}
DefaultColor == "#e8e8e8"
DefaultStyle == "modern"

\* configurations the setup wizard can produce (two-door template; the same
\* fridge reconfigured to a single freezer, with a photo)
CfgA == [name |-> "kitchen",
         compartments |-> <<[id |-> "refrigerator-1", typeId |-> "refrigerator"],
                            [id |-> "freezer-1", typeId |-> "freezer"]>>,
         style |-> "retro", color |-> "#ffb3ba", photo |-> undefined]
CfgB == [name |-> "garage",
         compartments |-> <<[id |-> "freezer-1", typeId |-> "freezer"]>>,
         style |-> "cute", color |-> "#bae1ff", photo |-> "data:image/jpeg;base64,AA"]
Configs == {CfgA, CfgB}
CompartmentIds == {"refrigerator-1", "freezer-1"}
Colors == {DefaultColor, "#ffb3ba"}

---------------------------------------------------------------------------
(* types/fridge: registries *)

CompartmentTypeIds ==
  <<"refrigerator", "freezer", "vegetable", "quickFreeze", "variableTemp",
    "iceMaker", "softFreeze", "vacuum", "chilled">>

\* COMPARTMENT_TYPES[typeId].name (the display names, in English here)
COMPARTMENT_TYPES ==
  [t \in Range(CompartmentTypeIds) |->
     [name |-> CASE t = "refrigerator" -> "Refrigerator room"
                 [] t = "freezer" -> "Freezer room"
                 [] t = "vegetable" -> "Vegetable crisper"
                 [] t = "quickFreeze" -> "Quick-freeze room"
                 [] t = "variableTemp" -> "Variable-temperature room"
                 [] t = "iceMaker" -> "Ice maker"
                 [] t = "softFreeze" -> "Soft-freeze room"
                 [] t = "vacuum" -> "Vacuum room"
                 [] t = "chilled" -> "Chilled room"]]

FOOD_CATEGORIES ==
  <<[id |-> "meat", defaultExpiryDays |-> 3],
    [id |-> "seafood", defaultExpiryDays |-> 2],
    [id |-> "vegetable", defaultExpiryDays |-> 7],
    [id |-> "fruit", defaultExpiryDays |-> 5],
    [id |-> "drink", defaultExpiryDays |-> 30],
    [id |-> "dairy", defaultExpiryDays |-> 7],
    [id |-> "leftover", defaultExpiryDays |-> 3],
    [id |-> "sauce", defaultExpiryDays |-> 60],
    [id |-> "other", defaultExpiryDays |-> 7]>>

FoodCategories == {FOOD_CATEGORIES[i].id : i \in DOMAIN FOOD_CATEGORIES}

\* FOOD_CATEGORIES.find(c => c.id === id) ?? FOOD_CATEGORIES[FOOD_CATEGORIES.length - 1]
getCategoryInfo(id) ==
  LET hits == {i \in DOMAIN FOOD_CATEGORIES : FOOD_CATEGORIES[i].id = id}
  IN IF hits # {} THEN FOOD_CATEGORIES[CHOOSE i \in hits : \A j \in hits : i <= j]
     ELSE FOOD_CATEGORIES[Len(FOOD_CATEGORIES)]

\* a string whose characters matter, as the sequence of its pieces: "-", a
\* decimal digit, or a run of other characters
Digits == {"0", "1", "2", "3", "4", "5", "6", "7", "8", "9"}
RECURSIVE Join(_)
Join(pieces) == IF pieces = <<>> THEN "" ELSE Head(pieces) \o Join(Tail(pieces))

\* instanceId.replace(/-\d+$/, ''): a "-" followed by digits up to the end is cut
StripOrdinal(pieces) ==
  LET n == Len(pieces)
      cuts == {k \in 1..n : /\ pieces[k] = "-"
                           /\ k < n
                           /\ \A j \in (k + 1)..n : pieces[j] \in Digits}
  IN IF cuts = {} THEN pieces
     ELSE SubSeq(pieces, 1, (CHOOSE k \in cuts : \A j \in cuts : k <= j) - 1)

\* the name of the properties every object inherits from Object.prototype:
\* `constructor` is the function Object, `toString` the function toString,
\* `__proto__` an object without a name
InheritedName ==
  [k \in {"constructor", "toString", "__proto__"} |->
     CASE k = "constructor" -> "Object"
       [] k = "toString" -> "toString"
       [] k = "__proto__" -> undefined]

\* COMPARTMENT_TYPES[key]?.name
TypeName(key) ==
  IF key \in DOMAIN COMPARTMENT_TYPES THEN COMPARTMENT_TYPES[key].name
  ELSE IF key \in DOMAIN InheritedName THEN InheritedName[key]
  ELSE undefined

\* a ?? b
Coalesce(a, b) == IF a = undefined \/ a = null THEN b ELSE a

\* getCompartmentLabel(instanceId, config)
getCompartmentLabel(instanceId, config) ==
  LET id == Join(instanceId)
      hits == IF config = None THEN {}
              ELSE {i \in DOMAIN config[1].compartments : config[1].compartments[i].id = id}
  IN IF hits # {}
     THEN Coalesce(TypeName(config[1].compartments[CHOOSE i \in hits : \A j \in hits : i <= j].typeId), id)
     ELSE Coalesce(TypeName(Join(StripOrdinal(instanceId))), id)

RECURSIVE createRec(_, _, _)
\* the map callback of createCompartmentInstances, over the rest of typeIds,
\* with the counts so far and the instances made so far
createRec(typeIds, counts, out) ==
  IF typeIds = <<>> THEN out
  ELSE LET typeId == Head(typeIds)
           n == (IF typeId \in DOMAIN counts THEN counts[typeId] ELSE 0) + 1
           counts2 == [t \in DOMAIN counts \cup {typeId} |-> IF t = typeId THEN n ELSE counts[t]]
       IN createRec(Tail(typeIds), counts2,
                    Append(out, [id |-> typeId \o "-" \o ToString(n), typeId |-> typeId]))

createCompartmentInstances_ByPosition(typeIds) ==
  [k \in 1..Len(typeIds) |->
     [id |-> typeIds[k] \o "-" \o ToString(k), typeId |-> typeIds[k]]]

\* createCompartmentInstances(typeIds)
createCompartmentInstances(typeIds) == createRec(typeIds, [t \in {} |-> 0], <<>>)

---------------------------------------------------------------------------
(* Date: time values are seconds since 1970-01-01T00:00:00Z; an ISO string   *)
(* is the record of its fields; the host time zone is a parameter           *)

SecondsPerHour == 60 * 60
SecondsPerMinute == SecondsPerHour \div 60
SecondsPerDay == 24 * 60 * 60

\* day number of a civil date (proleptic Gregorian calendar)
DaysFromCivil(y, m, d) ==
  LET yy == IF m <= 2 THEN y - 1 ELSE y
      era == yy \div 400
      yoe == yy - era * 400
      doy == (153 * (IF m > 2 THEN m - 3 ELSE m + 9) + 2) \div 5 + d - 1
      doe == yoe * 365 + yoe \div 4 - yoe \div 100 + doy
  IN era * 146097 + doe - 719468

\* civil date <<y, m, d>> of a day number
CivilFromDays(z) ==
  LET zz == z + 719468
      era == zz \div 146097
      doe == zz - era * 146097
      yoe == (doe - doe \div 1460 + doe \div 36524 - doe \div 146096) \div 365
      doy == doe - (365 * yoe + yoe \div 4 - yoe \div 100)
      mp == (5 * doy + 2) \div 153
      d == doy - (153 * mp + 2) \div 5 + 1
      m == IF mp < 10 THEN mp + 3 ELSE mp - 9
  IN <<yoe + era * 400 + (IF m <= 2 THEN 1 ELSE 0), m, d>>

Iso(y, m, d, hh, mm, ss) == [y |-> y, m |-> m, d |-> d, hh |-> hh, mm |-> mm, ss |-> ss]

\* the time value of the fields of a date-time
TimeOf(f) ==
  DaysFromCivil(f.y, f.m, f.d) * SecondsPerDay
    + f.hh * SecondsPerHour + f.mm * SecondsPerMinute + f.ss

\* the fields of a time value
FieldsOf(t) ==
  LET day == t \div SecondsPerDay
      sec == t % SecondsPerDay
      c == CivilFromDays(day)
  IN Iso(c[1], c[2], c[3], sec \div SecondsPerHour,
         (sec % SecondsPerHour) \div SecondsPerMinute, sec % SecondsPerMinute)

\* new Date(iso).getTime() and Date.prototype.toISOString (UTC fields)
ParseIso(iso) == TimeOf(iso)
toISOString(t) == FieldsOf(t)

\* host time zones: offset of local time from UTC, in seconds, at a time value
Zones == {"UTC", "Asia/Taipei", "America/New_York"}
NewYorkDstStart == TimeOf(Iso(2024, 3, 10, 7, 0, 0))
NewYorkDstEnd == TimeOf(Iso(2024, 11, 3, 6, 0, 0))
ZoneOffset(zone, t) ==
  CASE zone = "UTC" -> 0
    [] zone = "Asia/Taipei" -> 8 * SecondsPerHour
    [] zone = "America/New_York" ->
         IF t >= NewYorkDstStart /\ t < NewYorkDstEnd
         THEN 0 - 4 * SecondsPerHour ELSE 0 - 5 * SecondsPerHour
ZoneOffsets(zone) ==
  IF zone = "America/New_York" THEN {0 - 4 * SecondsPerHour, 0 - 5 * SecondsPerHour}
  ELSE {ZoneOffset(zone, 0)}

\* LocalTime(t) of ECMAScript
LocalTime(zone, t) == t + ZoneOffset(zone, t)

\* UTC(t) of ECMAScript: a local time that is skipped or repeated at a
\* transition is read with the offset in force before the transition
UtcOfLocal(zone, tl) ==
  LET valid == {o \in ZoneOffsets(zone) : ZoneOffset(zone, tl - o) = o}
  IN IF Cardinality(valid) = 1 THEN tl - (CHOOSE o \in valid : TRUE)
     ELSE tl - ZoneOffset(zone, tl - 2 * SecondsPerDay)

\* d.setDate(d.getDate() + days): the local day is moved, the local time of
\* day kept, and the result read back as a local time
setDatePlus(zone, t, days) == UtcOfLocal(zone, LocalTime(zone, t) + days * SecondsPerDay)

---------------------------------------------------------------------------
(* localStorage and JSON *)

Absent == [kind |-> "absent", val |-> <<>>]       \* getItem gives null
Corrupt == [kind |-> "corrupt", val |-> <<>>]     \* a string JSON.parse rejects
Json(v) == [kind |-> "json", val |-> v]           \* a string JSON.parse accepts

\* JSON.stringify omits the properties whose value is undefined
OmitUndefined(obj) ==
  LET keep == {k \in DOMAIN obj : ~(k = "photo" /\ obj[k] = undefined)}
  IN [k \in keep |-> obj[k]]

\* property read: a missing property reads as undefined
Get(obj, k) == IF k \in DOMAIN obj THEN obj[k] ELSE undefined

\* saveFoods: JSON.stringify(foods) under FOODS_STORAGE_KEY
saveFoods(foods) == Json(foods)

\* loadFoods: the parsed record, [] when missing or unparseable
loadFoods(st) == IF st.foods.kind = "json" THEN st.foods.val ELSE <<>>

\* saveFridgeConfig: JSON.stringify(config) under FRIDGE_CONFIG_KEY
saveFridgeConfig(config) == Json(Some(OmitUndefined(config)))

\* loadFridgeConfig: the parsed record, null when missing or unparseable
loadFridgeConfig(st) == IF st.config.kind = "json" THEN st.config.val ELSE None

---------------------------------------------------------------------------
(* useFridgeStore.ts: helpers *)

RECURSIVE ToString36(_)
\* Number.prototype.toString(36) of a non-negative integer, as its digits
ToString36(n) == IF n < 36 THEN <<n>> ELSE ToString36(n \div 36) \o <<n % 36>>

\* String.prototype.slice(from, to) with 0 <= from <= to
Slice(s, from, to) ==
  LET hi == IF to < Len(s) THEN to ELSE Len(s)
  IN IF from >= hi THEN <<>> ELSE SubSeq(s, from + 1, hi)

\* Math.random().toString(36): "0" for 0, else "0." and the fraction digits
RandomStrings == {<<0>>, <<0, DOT, 18>>}

\* generateId, given the values Date.now() and Math.random().toString(36) return
generateId(t, r) == ToString36(t) \o Slice(r, 2, 8)

getDefaultExpiryDate_Fixed24h(zone, category, dateAdded) ==
  LET info == getCategoryInfo(category)
      d == ParseIso(dateAdded)
  IN toISOString(d + info.defaultExpiryDays * SecondsPerDay)

\* getDefaultExpiryDate(category, dateAdded), in the host time zone
getDefaultExpiryDate(zone, category, dateAdded) ==
  LET info == getCategoryInfo(category)
      d == ParseIso(dateAdded)
  IN toISOString(setDatePlus(zone, d, info.defaultExpiryDays))

\* buildInitialOpenDoors
buildInitialOpenDoors(config) ==
  IF config = None THEN [c \in {} |-> FALSE]
  ELSE [c \in {config[1].compartments[i].id : i \in DOMAIN config[1].compartments} |-> FALSE]

ClosedAddFoodModal == [open |-> FALSE, compartment |-> null]
ClosedEditFoodModal == [open |-> FALSE, food |-> None]
ClosedContextMenu == [open |-> FALSE, food |-> None, x |-> 0, y |-> 0]

buildInitialState_SkipWelcome(st) ==
  LET config == loadFridgeConfig(st)
  IN [fridgeConfig |-> config,
      setupStep |-> null,
      openDoors |-> buildInitialOpenDoors(config),
      fridgeColor |-> IF config # None THEN Get(config[1], "color") ELSE DefaultColor,
      style |-> IF config # None THEN Get(config[1], "style") ELSE DefaultStyle,
      sidebarOpen |-> FALSE,
      cameraView |-> "default",
      foods |-> loadFoods(st),
      addFoodModal |-> ClosedAddFoodModal,
      editFoodModal |-> ClosedEditFoodModal,
      contextMenu |-> ClosedContextMenu]

\* buildInitialState, given the contents of localStorage
buildInitialState(st) ==
  LET config == loadFridgeConfig(st)
  IN [fridgeConfig |-> config,
      setupStep |-> IF config # None THEN null ELSE "welcome",
      openDoors |-> buildInitialOpenDoors(config),
      fridgeColor |-> IF config # None THEN Get(config[1], "color") ELSE DefaultColor,
      style |-> IF config # None THEN Get(config[1], "style") ELSE DefaultStyle,
      sidebarOpen |-> FALSE,
      cameraView |-> "default",
      foods |-> loadFoods(st),
      addFoodModal |-> ClosedAddFoodModal,
      editFoodModal |-> ClosedEditFoodModal,
      contextMenu |-> ClosedContextMenu]

---------------------------------------------------------------------------
(* useFridgeStore.ts: the state updaters of the actions *)

\* toggleDoor that keeps only the flag it sets
toggleDoor_DropOthers(prev, compartment) ==
  LET old == IF compartment \in DOMAIN prev.openDoors
             THEN prev.openDoors[compartment] ELSE FALSE
  IN [prev EXCEPT !.openDoors = [c \in {compartment} |-> ~old]]

\* toggleDoor without the negation
toggleDoor_NoNegate(prev, compartment) ==
  LET old == IF compartment \in DOMAIN prev.openDoors
             THEN prev.openDoors[compartment] ELSE FALSE
  IN [prev EXCEPT !.openDoors =
        [c \in DOMAIN prev.openDoors \cup {compartment} |->
           IF c = compartment THEN old ELSE prev.openDoors[c]]]

\* !prev.openDoors[compartment]: a missing key reads as undefined, which is falsy
toggleDoor(prev, compartment) ==
  LET old == IF compartment \in DOMAIN prev.openDoors
             THEN prev.openDoors[compartment] ELSE FALSE
  IN [prev EXCEPT !.openDoors =
        [c \in DOMAIN prev.openDoors \cup {compartment} |->
           IF c = compartment THEN ~old ELSE prev.openDoors[c]]]

setFridgeColor(prev, color) == [prev EXCEPT !.fridgeColor = color]

setStyle(prev, style) == [prev EXCEPT !.style = style]

toggleSidebar(prev) == [prev EXCEPT !.sidebarOpen = ~prev.sidebarOpen]

setCameraView(prev, view) == [prev EXCEPT !.cameraView = view]

\* { ...food, id }
WithId(food, id) == [k \in DOMAIN food \cup {"id"} |-> IF k = "id" THEN id ELSE food[k]]

addFood(prev, food, id) == [prev EXCEPT !.foods = Append(prev.foods, WithId(food, id))]

\* { ...f, ...updates }
Merge(f, updates) ==
  [k \in DOMAIN f \cup DOMAIN updates |-> IF k \in DOMAIN updates THEN updates[k] ELSE f[k]]

\* updateFood that clamps the merged quantity to a minimum of 1
updateFood_Clamp(prev, id, updates) ==
  LET Clamp(f) == [f EXCEPT !.quantity = IF f.quantity < 1 THEN 1 ELSE f.quantity]
  IN [prev EXCEPT !.foods =
        [i \in DOMAIN prev.foods |->
           IF prev.foods[i].id = id THEN Clamp(Merge(prev.foods[i], updates))
           ELSE prev.foods[i]]]

\* updateFood that inserts the fields as a new item when no item has the id
updateFood_Upsert(prev, id, updates) ==
  IF \E i \in DOMAIN prev.foods : prev.foods[i].id = id
  THEN [prev EXCEPT !.foods =
          [i \in DOMAIN prev.foods |->
             IF prev.foods[i].id = id THEN Merge(prev.foods[i], updates) ELSE prev.foods[i]]]
  ELSE [prev EXCEPT !.foods = Append(prev.foods, Merge([id |-> id], updates))]

\* updateFood that puts the updated item at the end of the inventory
updateFood_MoveToEnd(prev, id, updates) ==
  [prev EXCEPT !.foods =
     SelectSeq(prev.foods, LAMBDA f : f.id # id) \o
     [i \in DOMAIN SelectSeq(prev.foods, LAMBDA f : f.id = id) |->
        Merge(SelectSeq(prev.foods, LAMBDA f : f.id = id)[i], updates)]]

updateFood(prev, id, updates) ==
  [prev EXCEPT !.foods =
     [i \in DOMAIN prev.foods |->
        IF prev.foods[i].id = id THEN Merge(prev.foods[i], updates) ELSE prev.foods[i]]]

\* deleteFood by foods.splice(foods.findIndex(...), 1): index -1 removes the last item
deleteFood_Splice(prev, id) ==
  LET hits == {i \in DOMAIN prev.foods : prev.foods[i].id = id}
      at == IF hits = {} THEN Len(prev.foods)
            ELSE CHOOSE i \in hits : \A j \in hits : i <= j
  IN [prev EXCEPT !.foods =
        [i \in 1..(IF Len(prev.foods) = 0 THEN 0 ELSE Len(prev.foods) - 1) |->
           IF i < at THEN prev.foods[i] ELSE prev.foods[i + 1]]]

deleteFood(prev, id) ==
  LET Keep(f) == f.id # id
  IN [prev EXCEPT !.foods = SelectSeq(prev.foods, Keep)]

openAddFoodModal(prev, compartment) ==
  [prev EXCEPT !.addFoodModal = [open |-> TRUE, compartment |-> compartment]]

closeAddFoodModal(prev) == [prev EXCEPT !.addFoodModal = ClosedAddFoodModal]

\* openEditFoodModal that leaves the context menu as it is
openEditFoodModal_KeepMenu(prev, food) ==
  [prev EXCEPT !.editFoodModal = [open |-> TRUE, food |-> Some(food)]]

openEditFoodModal(prev, food) ==
  [prev EXCEPT !.editFoodModal = [open |-> TRUE, food |-> Some(food)],
               !.contextMenu = ClosedContextMenu]

closeEditFoodModal(prev) == [prev EXCEPT !.editFoodModal = ClosedEditFoodModal]

openContextMenu(prev, food, x, y) ==
  [prev EXCEPT !.contextMenu = [open |-> TRUE, food |-> Some(food), x |-> x, y |-> y]]

closeContextMenu(prev) == [prev EXCEPT !.contextMenu = ClosedContextMenu]

setSetupStep(prev, step) == [prev EXCEPT !.setupStep = step]

\* finishSetup that adds the new doors to the door flags it finds
finishSetup_KeepDoors(prev, config) ==
  LET fresh == buildInitialOpenDoors(Some(config))
  IN [prev EXCEPT !.fridgeConfig = Some(config),
                  !.setupStep = null,
                  !.fridgeColor = config.color,
                  !.style = config.style,
                  !.openDoors = [c \in DOMAIN prev.openDoors \cup DOMAIN fresh |->
                                   IF c \in DOMAIN fresh THEN fresh[c] ELSE prev.openDoors[c]]]

\* finishSetup that drops the foods of compartments the new configuration lacks
finishSetup_DropOrphans(prev, config) ==
  [prev EXCEPT !.fridgeConfig = Some(config),
               !.setupStep = null,
               !.fridgeColor = config.color,
               !.style = config.style,
               !.openDoors = buildInitialOpenDoors(Some(config)),
               !.foods = SelectSeq(prev.foods,
                           LAMBDA f : \E i \in DOMAIN config.compartments :
                                        config.compartments[i].id = f.compartment)]

finishSetup(prev, config) ==
  [prev EXCEPT !.fridgeConfig = Some(config),
               !.setupStep = null,
               !.fridgeColor = config.color,
               !.style = config.style,
               !.openDoors = buildInitialOpenDoors(Some(config))]

\* finishSetup without saveFridgeConfig
finishSetupStorage_NoWrite(st, config) == st

\* the storage writes finishSetup makes before it queues its updater
finishSetupStorage(st, config) == [st EXCEPT !.config = saveFridgeConfig(config)]

enterSettings(prev) == [prev EXCEPT !.setupStep = "welcome"]

\* resetFridge as an updater that spreads prev and leaves the door flags
resetFridge_KeepDoors(prev) ==
  [fridgeConfig |-> None,
   setupStep |-> "welcome",
   openDoors |-> prev.openDoors,
   fridgeColor |-> DefaultColor,
   style |-> DefaultStyle,
   sidebarOpen |-> FALSE,
   cameraView |-> "default",
   foods |-> <<>>,
   addFoodModal |-> ClosedAddFoodModal,
   editFoodModal |-> ClosedEditFoodModal,
   contextMenu |-> ClosedContextMenu]

\* resetFridge passes setState an object, not an updater: prev is not read
resetFridge(prev) ==
  [fridgeConfig |-> None,
   setupStep |-> "welcome",
   openDoors |-> [c \in {} |-> FALSE],
   fridgeColor |-> DefaultColor,
   style |-> DefaultStyle,
   sidebarOpen |-> FALSE,
   cameraView |-> "default",
   foods |-> <<>>,
   addFoodModal |-> ClosedAddFoodModal,
   editFoodModal |-> ClosedEditFoodModal,
   contextMenu |-> ClosedContextMenu]

\* resetFridge that removes the inventory record only
resetFridgeStorage_FoodsOnly(st) == [st EXCEPT !.foods = Absent]

\* the two removeItem calls resetFridge makes before setState
resetFridgeStorage(st) == [st EXCEPT !.foods = Absent, !.config = Absent]

\* deleteFood removing the item from prev.foods in place: the array stays the same
NewFoodsArray_InPlaceDelete(op) == op \in {"addFood", "updateFood", "resetFridge"}

\* every action giving state.foods a new array
NewFoodsArray_EveryAction(op) == TRUE

\* the actions whose updater builds a new foods array (a new dependency value
\* for the persist-foods effect)
NewFoodsArray(op) == op \in {"addFood", "updateFood", "deleteFood", "resetFridge"}

---------------------------------------------------------------------------
(* Inputs of the actions *)

\* what addFood receives (an item without id)
NewFoods ==
  {[name |-> "milk", category |-> "dairy", quantity |-> 1, compartment |-> "refrigerator-1",
    dateAdded |-> "2024-01-01T00:00:00.000Z", expiryDate |-> "2024-01-08T00:00:00.000Z"],
   [name |-> "peas", category |-> "vegetable", quantity |-> 2, compartment |-> "freezer-1",
    dateAdded |-> "2024-01-02T00:00:00.000Z", expiryDate |-> "2024-01-09T00:00:00.000Z"]}

\* what updateFood receives (any subset of the fields but id)
Updates ==
  {[quantity |-> 0],
   [category |-> "meat"],
   [name |-> "oat milk", quantity |-> 3]}

\* the inventory an earlier session left in storage
StoredFoods ==
  <<[id |-> generateId(StartNow - 1, <<0, DOT, 18>>), name |-> "ham", category |-> "meat",
     quantity |-> 1, compartment |-> "refrigerator-1",
     dateAdded |-> "2023-12-30T00:00:00.000Z", expiryDate |-> "2024-01-02T00:00:00.000Z"],
    [id |-> generateId(StartNow - 1, <<0, DOT, 7>>), name |-> "ice", category |-> "other",
     quantity |-> 4, compartment |-> "freezer-1",
     dateAdded |-> "2023-12-31T00:00:00.000Z", expiryDate |-> "2024-01-07T00:00:00.000Z"]>>

\* an id that no item of the inventory has
MissingId == generateId(0, <<0>>)

\* a food item that is not in the inventory
StaleFood ==
  [id |-> MissingId, name |-> "gone", category |-> "other", quantity |-> 1,
   compartment |-> "vegetable-1",
   dateAdded |-> "2023-12-01T00:00:00.000Z", expiryDate |-> "2023-12-08T00:00:00.000Z"]

\* the records localStorage can hold when the application starts
InitialStorage ==
  {[foods |-> f, config |-> c] :
     f \in {Absent, Corrupt, saveFoods(StoredFoods)},
     c \in {Absent, Corrupt, saveFridgeConfig(CfgA)}}

IdsOf(foods) == {foods[i].id : i \in DOMAIN foods}

\* no view component is modelled / no helper has been called
NoUi == [view |-> "none"]
NoCall == [op |-> "none"]

---------------------------------------------------------------------------
(* The state machine *)

\* useState(buildInitialState) and the first render, whose effects are pending
\* the store after useState(buildInitialState), before any effect has run
StartsFrom(st) ==
  /\ storage = st
  /\ state = buildInitialState(storage)
  /\ next = state
  /\ queued = 0
  /\ foodsChanged = FALSE
  /\ effectPending = TRUE
  /\ now = StartNow
  /\ last = [op |-> "init"]
  /\ dispatched = 0
  /\ unsavedQueued = 0
  /\ unsavedCommitted = 0

\* the store started on one of the contents localStorage can have
StoreInit == \E st \in InitialStorage : StartsFrom(st)

Init ==
  /\ StoreInit
  /\ ui = NoUi
  /\ fn = NoCall

\* setState: the updater is queued behind the updaters already queued
Queue(entry, s) ==
  /\ next' = s
  /\ queued' = queued + 1
  /\ foodsChanged' = (foodsChanged \/ NewFoodsArray(entry.op))
  /\ last' = entry
  /\ dispatched' = dispatched + 1
  /\ unsavedQueued' = IF entry.op \in {"addFood", "updateFood", "deleteFood"}
                      THEN unsavedQueued + 1 ELSE unsavedQueued
  /\ UNCHANGED <<state, effectPending, unsavedCommitted>>

\* an action of the store called on its own (not from a view component)
Dispatch(entry, s) ==
  /\ dispatched < MaxDispatch
  /\ Queue(entry, s)
  /\ UNCHANGED <<ui, fn>>

ToggleDoor ==
  \E c \in CompartmentIds :
    /\ Dispatch([op |-> "toggleDoor", compartment |-> c], toggleDoor(next, c))
    /\ UNCHANGED <<storage, now>>

SetFridgeColor ==
  \E color \in Colors :
    /\ Dispatch([op |-> "setFridgeColor", color |-> color], setFridgeColor(next, color))
    /\ UNCHANGED <<storage, now>>

SetStyle ==
  \E style \in Styles :
    /\ Dispatch([op |-> "setStyle", style |-> style], setStyle(next, style))
    /\ UNCHANGED <<storage, now>>

\* toggleSidebar with an updater that reads the rendered state, not prev
ToggleSidebar_Stale ==
  /\ Dispatch([op |-> "toggleSidebar"], toggleSidebar(state))
  /\ UNCHANGED <<storage, now>>

ToggleSidebar ==
  /\ Dispatch([op |-> "toggleSidebar"], toggleSidebar(next))
  /\ UNCHANGED <<storage, now>>

SetCameraView ==
  \E view \in CameraViews :
    /\ Dispatch([op |-> "setCameraView", view |-> view], setCameraView(next, view))
    /\ UNCHANGED <<storage, now>>

\* generateId runs in the handler, before the updater is queued
AddFood ==
  \E food \in NewFoods, t \in now..MaxNow, r \in RandomStrings :
    /\ Dispatch([op |-> "addFood", food |-> food, id |-> generateId(t, r)],
                addFood(next, food, generateId(t, r)))
    /\ now' = t
    /\ UNCHANGED storage

UpdateFood ==
  \E id \in IdsOf(next.foods) \cup {MissingId}, updates \in Updates :
    /\ Dispatch([op |-> "updateFood", id |-> id, updates |-> updates],
                updateFood(next, id, updates))
    /\ UNCHANGED <<storage, now>>

DeleteFood ==
  \E id \in IdsOf(next.foods) \cup IdsOf(StoredFoods) \cup {MissingId} :
    /\ Dispatch([op |-> "deleteFood", id |-> id], deleteFood(next, id))
    /\ UNCHANGED <<storage, now>>

OpenAddFoodModal ==
  \E c \in CompartmentIds :
    /\ Dispatch([op |-> "openAddFoodModal", compartment |-> c], openAddFoodModal(next, c))
    /\ UNCHANGED <<storage, now>>

CloseAddFoodModal ==
  /\ Dispatch([op |-> "closeAddFoodModal"], closeAddFoodModal(next))
  /\ UNCHANGED <<storage, now>>

OpenEditFoodModal ==
  \E food \in Range(state.foods) \cup {StaleFood} :
    /\ Dispatch([op |-> "openEditFoodModal", food |-> food], openEditFoodModal(next, food))
    /\ UNCHANGED <<storage, now>>

CloseEditFoodModal ==
  /\ Dispatch([op |-> "closeEditFoodModal"], closeEditFoodModal(next))
  /\ UNCHANGED <<storage, now>>

OpenContextMenu ==
  \E food \in Range(state.foods) \cup {StaleFood} :
    /\ Dispatch([op |-> "openContextMenu", food |-> food, x |-> 120, y |-> 80],
                openContextMenu(next, food, 120, 80))
    /\ UNCHANGED <<storage, now>>

CloseContextMenu ==
  /\ Dispatch([op |-> "closeContextMenu"], closeContextMenu(next))
  /\ UNCHANGED <<storage, now>>

SetSetupStep ==
  \E step \in SetupSteps :
    /\ Dispatch([op |-> "setSetupStep", step |-> step], setSetupStep(next, step))
    /\ UNCHANGED <<storage, now>>

\* saveFridgeConfig runs in the handler, before the updater is queued
FinishSetup ==
  \E config \in Configs :
    /\ Dispatch([op |-> "finishSetup", config |-> config], finishSetup(next, config))
    /\ storage' = finishSetupStorage(storage, config)
    /\ UNCHANGED now

\* finishSetup with setState ahead of saveFridgeConfig
FinishSetupThrows_AfterSetState ==
  \E config \in Configs :
    /\ Dispatch([op |-> "finishSetup", config |-> config, threw |-> TRUE],
                finishSetup(next, config))
    /\ UNCHANGED <<storage, now>>

\* finishSetup when localStorage.setItem throws (quota exceeded, storage
\* disabled): saveFridgeConfig has no try, the exception leaves finishSetup
\* before setState is reached, and setItem has stored nothing
FinishSetupThrows ==
  \E config \in Configs :
    /\ dispatched < MaxDispatch
    /\ last' = [op |-> "finishSetup", config |-> config, threw |-> TRUE]
    /\ dispatched' = dispatched + 1
    /\ UNCHANGED <<state, next, queued, foodsChanged, effectPending, storage, now,
                   unsavedQueued, unsavedCommitted, ui, fn>>

EnterSettings ==
  /\ Dispatch([op |-> "enterSettings"], enterSettings(next))
  /\ UNCHANGED <<storage, now>>

\* the removeItem calls run in the handler, before setState
ResetFridge ==
  /\ Dispatch([op |-> "resetFridge"], resetFridge(next))
  /\ storage' = resetFridgeStorage(storage)
  /\ UNCHANGED now

\* React renders: the queued updaters are applied and the result committed.
\* The passive effects of the previous render are flushed before a render starts.
Commit ==
  /\ queued > 0
  /\ ~effectPending
  /\ state' = next
  /\ queued' = 0
  /\ effectPending' = foodsChanged
  /\ foodsChanged' = FALSE
  /\ unsavedCommitted' = unsavedQueued
  /\ unsavedQueued' = 0
  /\ UNCHANGED <<next, storage, now, last, dispatched, fn>>

\* a render that mounts and unmounts no component with state of its own
Render == Commit /\ UNCHANGED ui

\* useEffect(() => saveFoods(state.foods), [state.foods])
PersistFoodsEffect ==
  /\ effectPending
  /\ storage' = [storage EXCEPT !.foods = saveFoods(state.foods)]
  /\ effectPending' = FALSE
  /\ unsavedCommitted' = 0
  /\ UNCHANGED <<state, next, queued, foodsChanged, now, last, dispatched, unsavedQueued,
               ui, fn>>

Next ==
  \/ ToggleDoor \/ SetFridgeColor \/ SetStyle \/ ToggleSidebar \/ SetCameraView
  \/ AddFood \/ UpdateFood \/ DeleteFood
  \/ OpenAddFoodModal \/ CloseAddFoodModal
  \/ OpenEditFoodModal \/ CloseEditFoodModal
  \/ OpenContextMenu \/ CloseContextMenu
  \/ SetSetupStep \/ FinishSetup \/ EnterSettings \/ ResetFridge
  \/ Render \/ PersistFoodsEffect

Spec == Init /\ [][Next]_vars

\* every queued updater is eventually rendered and every pending effect run
FairSpec == Spec /\ WF_vars(Render) /\ WF_vars(PersistFoodsEffect)

\* the store with a localStorage whose writes of the configuration can fail
FailNext == Next \/ FinishSetupThrows

FailSpec == Init /\ [][FailNext]_vars

TypeOK ==
  /\ queued \in 0..MaxDispatch
  /\ dispatched \in 0..MaxDispatch
  /\ now \in StartNow..MaxNow
  /\ state.setupStep \in SetupSteps
  /\ next.setupStep \in SetupSteps

---------------------------------------------------------------------------
(* Fridge2D.tsx, Sidebar.tsx: the compartment sections *)

\* the ids of fridgeConfig?.compartments ?? []
ConfiguredCompartments(s) ==
  IF s.fridgeConfig = None THEN {}
  ELSE {s.fridgeConfig[1].compartments[i].id : i \in DOMAIN s.fridgeConfig[1].compartments}

\* foodsByCompartment: a group for every compartment of the configuration and
\* for every compartment id a food carries
foodsByCompartment(compartments, foods) ==
  [k \in {compartments[i].id : i \in DOMAIN compartments}
           \cup {foods[i].compartment : i \in DOMAIN foods} |->
     SelectSeq(foods, LAMBDA f : f.compartment = k)]

\* compartments.map(...): one section for each compartment of the
\* configuration, showing the group of its id
CompartmentSections(s) ==
  LET compartments == IF s.fridgeConfig = None THEN <<>> ELSE s.fridgeConfig[1].compartments
      groups == foodsByCompartment(compartments, s.foods)
  IN [i \in DOMAIN compartments |->
        [id |-> compartments[i].id, foods |-> groups[compartments[i].id]]]

---------------------------------------------------------------------------
(* The module-level functions, called on their own *)

MaxTypes == 3
MaxIdLen == 3

\* sequences over S of length at most n
SeqsUpTo(S, n) == UNION {[1..k -> S] : k \in 0..n}

\* date-added values: the turn of a year and of a month, a leap day, and
\* days before the two transitions of America/New_York in 2024
GivenDates ==
  {Iso(2024, 1, 1, 0, 0, 0), Iso(2023, 12, 30, 18, 0, 0), Iso(2024, 1, 31, 23, 59, 59),
   Iso(2024, 2, 27, 12, 0, 0), Iso(2024, 3, 8, 7, 30, 0), Iso(2024, 10, 31, 5, 30, 0)}

TypeChoices == {"refrigerator", "freezer", "vegetable"}
IdPieces == {"freezer", "refrigerator", "shelf", "constructor", "-", "1", "3"}

FnInit == Init /\ storage = [foods |-> Absent, config |-> Absent]

StoreUnchanged ==
  UNCHANGED <<state, next, queued, foodsChanged, effectPending, storage, now, last,
              dispatched, unsavedQueued, unsavedCommitted, ui>>

CallGetDefaultExpiryDate ==
  \E zone \in Zones, category \in FoodCategories, dateAdded \in GivenDates :
    /\ fn' = [op |-> "getDefaultExpiryDate", zone |-> zone, category |-> category,
              dateAdded |-> dateAdded,
              result |-> getDefaultExpiryDate(zone, category, dateAdded)]
    /\ StoreUnchanged

CallCreateCompartmentInstances ==
  \E typeIds \in SeqsUpTo(TypeChoices, MaxTypes) :
    /\ fn' = [op |-> "createCompartmentInstances", typeIds |-> typeIds,
              result |-> createCompartmentInstances(typeIds)]
    /\ StoreUnchanged

CallGetCompartmentLabel ==
  \E instanceId \in SeqsUpTo(IdPieces, MaxIdLen), config \in {None} \cup {Some(c) : c \in Configs} :
    /\ fn' = [op |-> "getCompartmentLabel", instanceId |-> instanceId, config |-> config,
              result |-> getCompartmentLabel(instanceId, config)]
    /\ StoreUnchanged

\* removeCompartment(index): prev.filter((_, i) => i !== index), index from 1 here
removeCompartment(typeIds, index) ==
  [k \in 1..(Len(typeIds) - (IF index \in DOMAIN typeIds THEN 1 ELSE 0)) |->
     IF k < index THEN typeIds[k] ELSE typeIds[k + 1]]

\* handleNext without the check for an empty list
handleNext_AllowEmpty(typeIds) == Some(createCompartmentInstances(typeIds))

\* CompartmentConfig.handleNext: nothing for an empty list (None), else the
\* instances passed to onNext
handleNext(typeIds) ==
  IF Len(typeIds) = 0 THEN None ELSE Some(createCompartmentInstances(typeIds))

\* the compartments step showing the rows of an existing configuration
\* (selectedTypeIds = existingConfig.compartments.map(c => c.typeId)): one row
\* is removed and the next button pressed
CallRemoveCompartmentThenNext ==
  \E typeIds \in SeqsUpTo(TypeChoices, MaxTypes) :
    \E index \in DOMAIN typeIds :
      /\ fn' = [op |-> "removeCompartment",
                existing |-> createCompartmentInstances(typeIds),
                index |-> index,
                result |-> handleNext(removeCompartment(typeIds, index))]
      /\ StoreUnchanged

FnNext ==
  \/ CallGetDefaultExpiryDate
  \/ CallCreateCompartmentInstances
  \/ CallGetCompartmentLabel
  \/ CallRemoveCompartmentThenNext

FnSpec == FnInit /\ [][FnNext]_vars

---------------------------------------------------------------------------
(* App.tsx and the components: the overlays as the user operates them *)

MaxOverlayDispatch == 4
MaxFormDispatch == 3
MaxEntryDispatch == 5

\* several setState calls of one handler: the updaters are queued in order, s
\* being the state after the last of them
QueueAll(entries, s) ==
  /\ next' = s
  /\ queued' = queued + Len(entries)
  /\ foodsChanged' = (foodsChanged \/ \E i \in DOMAIN entries : NewFoodsArray(entries[i].op))
  /\ last' = entries[Len(entries)]
  /\ dispatched' = dispatched + Len(entries)
  /\ unsavedQueued' = unsavedQueued +
       Cardinality({i \in DOMAIN entries : entries[i].op \in {"addFood", "updateFood", "deleteFood"}})
  /\ UNCHANGED <<state, effectPending, unsavedCommitted>>

\* a handler of a rendered component runs: the render of the events before
\* it has taken place
Handling(entries, s) ==
  /\ queued = 0
  /\ dispatched + Len(entries) <= (IF ui = NoUi THEN MaxOverlayDispatch
                                   ELSE IF ui.view = "modals" THEN MaxEntryDispatch
                                   ELSE MaxFormDispatch)
  /\ QueueAll(entries, s)
  /\ UNCHANGED <<storage, fn>>

\* a handler that sets no state of its own component
Handle(entries, s) == Handling(entries, s) /\ UNCHANGED ui

\* App renders the main view, not the wizard
MainShown == state.setupStep = null
\* AddFoodModal, EditFoodModal and FoodContextMenu render something
AddShown == MainShown /\ state.addFoodModal.open /\ state.addFoodModal.compartment # null
EditShown == MainShown /\ state.editFoodModal.open /\ state.editFoodModal.food # None
MenuShown == MainShown /\ state.contextMenu.open /\ state.contextMenu.food # None

\* a pointer reaches the main view: no backdrop of a modal covers it, and no
\* context menu is open (a mousedown outside the menu closes it first)
PointerOnMain == ~AddShown /\ ~EditShown /\ ~(MainShown /\ state.contextMenu.open)

\* the foods the compartment sections show
ShownFoods == UNION {Range(CompartmentSections(state)[k].foods) : k \in DOMAIN CompartmentSections(state)}

\* what the edit form holds when it is saved
EditedFields ==
  {[name |-> "oat milk", category |-> "dairy", quantity |-> 3,
    dateAdded |-> "2024-01-01T00:00:00.000Z", expiryDate |-> "2024-01-08T00:00:00.000Z"]}

\* the application starts configured, with an inventory
OverlayInit ==
  Init /\ storage = [foods |-> saveFoods(StoredFoods), config |-> saveFridgeConfig(CfgA)]

\* a food button of a compartment section is pressed, with the pointer or,
\* having the focus, from the keyboard: onFoodClick
PressFood ==
  \E pointer \in BOOLEAN, food \in ShownFoods :
    /\ MainShown
    /\ pointer => PointerOnMain
    /\ Handle(<<[op |-> "openContextMenu", food |-> food, x |-> 120, y |-> 80]>>,
              openContextMenu(next, food, 120, 80))
    /\ UNCHANGED now

\* the add button of a compartment section is pressed, with the pointer or,
\* having the focus, from the keyboard: onAddFood(comp.id)
PressAddButton ==
  \E pointer \in BOOLEAN, compartment \in ConfiguredCompartments(state) :
    /\ MainShown
    /\ pointer => PointerOnMain
    /\ Handle(<<[op |-> "openAddFoodModal", compartment |-> compartment]>>,
              openAddFoodModal(next, compartment))
    /\ UNCHANGED now

\* FoodContextMenu: a mousedown or touchstart outside the open menu
MouseDownOutsideMenu ==
  /\ MainShown
  /\ state.contextMenu.open
  /\ Handle(<<[op |-> "closeContextMenu"]>>, closeContextMenu(next))
  /\ UNCHANGED now

\* FoodContextMenu: the edit button
PressMenuEdit ==
  /\ MenuShown
  /\ Handle(<<[op |-> "openEditFoodModal", food |-> state.contextMenu.food[1]]>>,
            openEditFoodModal(next, state.contextMenu.food[1]))
  /\ UNCHANGED now

\* FoodContextMenu: the delete button, onDelete(food.id); onClose()
PressMenuDelete ==
  /\ MenuShown
  /\ Handle(<<[op |-> "deleteFood", id |-> state.contextMenu.food[1].id],
              [op |-> "closeContextMenu"]>>,
            closeContextMenu(deleteFood(next, state.contextMenu.food[1].id)))
  /\ UNCHANGED now

\* AddFoodModal: handleSave with a name, onSave(food); onClose()
AddModalSave ==
  \E food \in NewFoods, t \in now..MaxNow, r \in RandomStrings :
    /\ AddShown
    /\ food.compartment = state.addFoodModal.compartment
    /\ Handle(<<[op |-> "addFood", food |-> food, id |-> generateId(t, r)],
                [op |-> "closeAddFoodModal"]>>,
              closeAddFoodModal(addFood(next, food, generateId(t, r))))
    /\ now' = t

\* AddFoodModal: the cancel button or the backdrop
AddModalClose ==
  /\ AddShown
  /\ Handle(<<[op |-> "closeAddFoodModal"]>>, closeAddFoodModal(next))
  /\ UNCHANGED now

\* EditFoodModal: handleSave with a name, onSave(food.id, fields); onClose()
EditModalSave ==
  \E updates \in EditedFields :
    /\ EditShown
    /\ Handle(<<[op |-> "updateFood", id |-> state.editFoodModal.food[1].id, updates |-> updates],
                [op |-> "closeEditFoodModal"]>>,
              closeEditFoodModal(updateFood(next, state.editFoodModal.food[1].id, updates)))
    /\ UNCHANGED now

\* EditFoodModal: the cancel button or the backdrop
EditModalClose ==
  /\ EditShown
  /\ Handle(<<[op |-> "closeEditFoodModal"]>>, closeEditFoodModal(next))
  /\ UNCHANGED now

OverlayNext ==
  \/ PressFood \/ PressAddButton
  \/ MouseDownOutsideMenu \/ PressMenuEdit \/ PressMenuDelete
  \/ AddModalSave \/ AddModalClose
  \/ EditModalSave \/ EditModalClose
  \/ Render \/ PersistFoodsEffect

OverlaySpec == OverlayInit /\ [][OverlayNext]_vars

---------------------------------------------------------------------------
(* AddFoodModal.tsx: the form of the add-food overlay *)

\* "YYYY-MM-DDTHH:mm", the value of a datetime-local input: an ISO string cut
\* after the minutes
LocalMinute(f) == [y |-> f.y, m |-> f.m, d |-> f.d, hh |-> f.hh, mm |-> f.mm]

\* toLocalDatetime(iso), in the host time zone
toLocalDatetime(zone, iso) ==
  LET d == ParseIso(iso)
      offset == 0 - (ZoneOffset(zone, d) \div SecondsPerMinute)
      local == d - offset * SecondsPerMinute
  IN Some(LocalMinute(toISOString(local)))

\* fromLocalDatetime(val), in the host time zone: val is read as a local time;
\* None for the RangeError toISOString throws on the empty value
fromLocalDatetime(zone, val) ==
  IF val = None THEN None
  ELSE Some(toISOString(UtcOfLocal(zone,
              TimeOf(Iso(val[1].y, val[1].m, val[1].d, val[1].hh, val[1].mm, 0)))))

RECURSIVE TrimStart(_)
TrimStart(pieces) ==
  IF pieces # <<>> /\ Head(pieces) = " " THEN TrimStart(Tail(pieces)) ELSE pieces
RECURSIVE TrimEnd(_)
TrimEnd(pieces) ==
  IF pieces # <<>> /\ pieces[Len(pieces)] = " "
  THEN TrimEnd(SubSeq(pieces, 1, Len(pieces) - 1)) ELSE pieces
\* name.trim()
Trim(pieces) == TrimEnd(TrimStart(pieces))

\* the useState values of AddFoodModal when it is mounted, with the values
\* its effects last ran with (open; category, dateAdded, expirySetByAI), and
\* whether the expiry field was typed into after it was last derived; then
\* the recognition state, and what is still to come: file reads and
\* recognizeFood promises not yet settled, timers not yet fired, with the
\* number of recognition attempts started and of recognizeFood calls made;
\* then the useState values of EditFoodModal, with the values its effect last
\* ran with (open, food)
MountedForm(zone) ==
  [view |-> "addFoodModal", zone |-> zone,
   name |-> <<>>, category |-> "other", quantity |-> 1,
   dateAdded |-> None, expiryDate |-> None, expirySetByAI |-> FALSE,
   openRun |-> FALSE, deps |-> <<"other", None, FALSE>>, expiryTyped |-> FALSE,
   cameraOpen |-> FALSE, recognitionState |-> "idle", recognitionError |-> "",
   thumbnail |-> null,
   reading |-> 0, awaiting |-> 0, timers |-> 0, attempts |-> 0, calls |-> 0,
   editName |-> <<>>, editCategory |-> "other", editQuantity |-> 1,
   editDateAdded |-> None, editExpiryDate |-> None, editDeps |-> <<FALSE, None>>]

\* what the user types and picks
FormNames == {<<" ">>, <<" ", "ham", " ">>}
FormCategories == {"meat"}
FormDates == {None, Some(LocalMinute(Iso(2024, 3, 10, 2, 30, 0)))}
FormExpiries == {Some(LocalMinute(Iso(2024, 2, 1, 9, 0, 0)))}
\* what new Date() gives when the overlay opens
FormClocks == {Iso(2024, 1, 1, 0, 0, 0), Iso(2024, 3, 8, 7, 30, 42)}

\* the food of the scenario: addFood called with no expiryDate
ScenarioFood ==
  [name |-> "ham", category |-> "meat", quantity |-> 1, compartment |-> "refrigerator-1",
   dateAdded |-> Iso(2024, 1, 1, 0, 0, 0)]

\* the application starts configured, with an empty inventory, in some zone
FormInit ==
  /\ StoreInit
  /\ storage = [foods |-> Absent, config |-> saveFridgeConfig(CfgA)]
  /\ fn = NoCall
  /\ \E zone \in Zones : ui = MountedForm(zone)

FormKeepsStore ==
  UNCHANGED <<state, next, queued, foodsChanged, effectPending, storage, now, last,
              dispatched, unsavedQueued, unsavedCommitted, fn>>

OpenEffectDue == state.addFoodModal.open # ui.openRun
DeriveEffectDue == ui.deps # <<ui.category, ui.dateAdded, ui.expirySetByAI>>
\* the form is shown and the effects of its last render have run
EditEffectDue == ui.editDeps # <<state.editFoodModal.open, state.editFoodModal.food>>
FormReady == AddShown /\ queued = 0 /\ ~OpenEffectDue /\ ~DeriveEffectDue /\ ~EditEffectDue

\* useEffect(..., [open])
FormOpenEffect ==
  /\ OpenEffectDue
  /\ \E clock \in FormClocks :
       ui' = IF state.addFoodModal.open
             THEN [ui EXCEPT !.openRun = TRUE,
                             !.name = <<>>, !.category = "other", !.quantity = 1,
                             !.dateAdded = toLocalDatetime(ui.zone, clock),
                             !.expiryDate = toLocalDatetime(ui.zone,
                                              getDefaultExpiryDate(ui.zone, "other", clock)),
                             !.recognitionState = "idle",
                             !.recognitionError = "",
                             !.thumbnail = null,
                             !.expirySetByAI = FALSE,
                             !.expiryTyped = FALSE]
             ELSE [ui EXCEPT !.openRun = FALSE]
  /\ FormKeepsStore

\* the second effect, deriving the expiry from the category 'other' always
FormDeriveEffect_IgnoreCategory ==
  /\ ~OpenEffectDue
  /\ DeriveEffectDue
  /\ ui' = IF ui.dateAdded # None /\ ~ui.expirySetByAI
           THEN [ui EXCEPT !.deps = <<ui.category, ui.dateAdded, ui.expirySetByAI>>,
                           !.expiryDate = toLocalDatetime(ui.zone,
                                            getDefaultExpiryDate(ui.zone, "other",
                                              fromLocalDatetime(ui.zone, ui.dateAdded)[1])),
                           !.expiryTyped = FALSE]
           ELSE [ui EXCEPT !.deps = <<ui.category, ui.dateAdded, ui.expirySetByAI>>]
  /\ FormKeepsStore

\* useEffect(..., [category, dateAdded, expirySetByAI])
FormDeriveEffect ==
  /\ ~OpenEffectDue
  /\ DeriveEffectDue
  /\ ui' = IF ui.dateAdded # None /\ ~ui.expirySetByAI
           THEN [ui EXCEPT !.deps = <<ui.category, ui.dateAdded, ui.expirySetByAI>>,
                           !.expiryDate = toLocalDatetime(ui.zone,
                                            getDefaultExpiryDate(ui.zone, ui.category,
                                              fromLocalDatetime(ui.zone, ui.dateAdded)[1])),
                           !.expiryTyped = FALSE]
           ELSE [ui EXCEPT !.deps = <<ui.category, ui.dateAdded, ui.expirySetByAI>>]
  /\ FormKeepsStore

\* the add button of a compartment section
FormPressAddButton == ~OpenEffectDue /\ PressAddButton

FormSetName ==
  \E name \in FormNames :
    /\ FormReady
    /\ ui' = [ui EXCEPT !.name = name]
    /\ FormKeepsStore

\* the category select: setCategory(value); setExpirySetByAI(false)
FormSetCategory ==
  \E category \in FormCategories :
    /\ FormReady
    /\ ui' = [ui EXCEPT !.category = category, !.expirySetByAI = FALSE]
    /\ FormKeepsStore

\* the date-added input: setDateAdded(value); setExpirySetByAI(false)
FormSetDateAdded ==
  \E val \in FormDates :
    /\ FormReady
    /\ ui' = [ui EXCEPT !.dateAdded = val, !.expirySetByAI = FALSE]
    /\ FormKeepsStore

\* the expiry input: setExpiryDate(value)
FormSetExpiryDate ==
  \E val \in FormExpiries :
    /\ FormReady
    /\ ui' = [ui EXCEPT !.expiryDate = val, !.expiryTyped = TRUE]
    /\ FormKeepsStore

\* handleSave: nothing without a name; a RangeError (nothing dispatched) when
\* a date field is empty; else onSave(food); onClose()
FormSave ==
  /\ FormReady
  /\ Trim(ui.name) # <<>>
  /\ fromLocalDatetime(ui.zone, ui.dateAdded) # None
  /\ fromLocalDatetime(ui.zone, ui.expiryDate) # None
  /\ \E t \in now..MaxNow, r \in RandomStrings :
       LET food == [name |-> Join(Trim(ui.name)),
                    category |-> ui.category,
                    quantity |-> IF ui.quantity < 1 THEN 1 ELSE ui.quantity,
                    compartment |-> state.addFoodModal.compartment,
                    dateAdded |-> fromLocalDatetime(ui.zone, ui.dateAdded)[1],
                    expiryDate |-> fromLocalDatetime(ui.zone, ui.expiryDate)[1]]
       IN /\ Handling(<<[op |-> "addFood", food |-> food, id |-> generateId(t, r)],
                        [op |-> "closeAddFoodModal"]>>,
                      closeAddFoodModal(addFood(next, food, generateId(t, r))))
          /\ now' = t
  /\ UNCHANGED ui

\* the cancel button or the backdrop
FormClose ==
  /\ FormReady
  /\ Handling(<<[op |-> "closeAddFoodModal"]>>, closeAddFoodModal(next))
  /\ UNCHANGED <<ui, now>>

\* the store's addFood called as in the scenario, with a food object that has
\* no expiryDate
AddFoodWithoutExpiry ==
  \E t \in now..MaxNow, r \in RandomStrings :
    /\ ~OpenEffectDue
    /\ Handling(<<[op |-> "addFood", food |-> ScenarioFood, id |-> generateId(t, r)]>>,
                addFood(next, ScenarioFood, generateId(t, r)))
    /\ now' = t
    /\ UNCHANGED ui

FormNext ==
  \/ FormOpenEffect \/ FormDeriveEffect
  \/ FormPressAddButton
  \/ FormSetName \/ FormSetCategory \/ FormSetDateAdded \/ FormSetExpiryDate
  \/ FormSave \/ FormClose
  \/ AddFoodWithoutExpiry
  \/ Render \/ PersistFoodsEffect

FormSpec == FormInit /\ [][FormNext]_vars

---------------------------------------------------------------------------
(* AddFoodModal.tsx, EditFoodModal.tsx: name and quantity of what is saved *)

MaxQuantity == 2

\* what is typed into a quantity field, character by character
QuantityTexts == {<<>>, <<"0">>, <<"-", "3">>, <<"4", ".", "9">>, <<"x", "2">>}

DigitValue(c) == CHOOSE n \in 0..9 : ToString(n) = c

RECURSIVE LeadingDigits(_)
LeadingDigits(chars) ==
  IF chars # <<>> /\ Head(chars) \in Digits
  THEN <<Head(chars)>> \o LeadingDigits(Tail(chars)) ELSE <<>>

RECURSIVE DecimalValue(_)
DecimalValue(digits) ==
  IF digits = <<>> THEN 0
  ELSE DecimalValue(SubSeq(digits, 1, Len(digits) - 1)) * 10 + DigitValue(digits[Len(digits)])

\* parseInt(text): leading white space, a sign, then the digits up to the
\* first other character; None for NaN
parseInt(text) ==
  LET chars == TrimStart(text)
      signed == chars # <<>> /\ Head(chars) \in {"-", "+"}
      run == LeadingDigits(IF signed THEN Tail(chars) ELSE chars)
  IN IF run = <<>> THEN None
     ELSE Some(IF signed /\ Head(chars) = "-" THEN 0 - DecimalValue(run) ELSE DecimalValue(run))

\* Math.max(1, n)
AtLeastOne(n) == IF n < 1 THEN 1 ELSE n

\* Math.max(1, parseInt(e.target.value) || 1): NaN and 0 are falsy
TypedQuantity(text) ==
  LET n == parseInt(text)
  IN AtLeastOne(IF n = None \/ n[1] = 0 THEN 1 ELSE n[1])

\* AddFoodModal: the quantity input, and the buttons beside it
FormSetQuantity ==
  \E text \in QuantityTexts :
    /\ FormReady
    /\ ui' = [ui EXCEPT !.quantity = TypedQuantity(text)]
    /\ FormKeepsStore

FormQuantityMinus ==
  /\ FormReady
  /\ ui' = [ui EXCEPT !.quantity = AtLeastOne(ui.quantity - 1)]
  /\ FormKeepsStore

FormQuantityPlus ==
  /\ FormReady
  /\ ui.quantity < MaxQuantity
  /\ ui' = [ui EXCEPT !.quantity = ui.quantity + 1]
  /\ FormKeepsStore

\* the edit form is shown and the effects of the last render have run
EditReady ==
  EditShown /\ queued = 0 /\ ~OpenEffectDue /\ ~DeriveEffectDue /\ ~EditEffectDue

\* EditFoodModal: useEffect(..., [open, food])
EditEffect ==
  /\ EditEffectDue
  /\ LET open == state.editFoodModal.open
         food == state.editFoodModal.food
     IN ui' = IF open /\ food # None
              THEN [ui EXCEPT !.editDeps = <<open, food>>,
                              !.editName = <<food[1].name>>,
                              !.editCategory = food[1].category,
                              !.editQuantity = food[1].quantity,
                              !.editDateAdded = toLocalDatetime(ui.zone, food[1].dateAdded),
                              !.editExpiryDate = toLocalDatetime(ui.zone, food[1].expiryDate)]
              ELSE [ui EXCEPT !.editDeps = <<open, food>>]
  /\ FormKeepsStore

EditSetName ==
  \E name \in FormNames \cup {<<>>} :
    /\ EditReady
    /\ ui' = [ui EXCEPT !.editName = name]
    /\ FormKeepsStore

EditSetQuantity ==
  \E text \in QuantityTexts :
    /\ EditReady
    /\ ui' = [ui EXCEPT !.editQuantity = TypedQuantity(text)]
    /\ FormKeepsStore

EditQuantityMinus ==
  /\ EditReady
  /\ ui' = [ui EXCEPT !.editQuantity = AtLeastOne(ui.editQuantity - 1)]
  /\ FormKeepsStore

EditQuantityPlus ==
  /\ EditReady
  /\ ui.editQuantity < MaxQuantity
  /\ ui' = [ui EXCEPT !.editQuantity = ui.editQuantity + 1]
  /\ FormKeepsStore

\* handleSave of EditFoodModal passing the quantity as it is held
EditFormSave_NoClamp ==
  /\ EditReady
  /\ Trim(ui.editName) # <<>>
  /\ fromLocalDatetime(ui.zone, ui.editDateAdded) # None
  /\ fromLocalDatetime(ui.zone, ui.editExpiryDate) # None
  /\ LET id == state.editFoodModal.food[1].id
         updates == [name |-> Join(Trim(ui.editName)),
                     category |-> ui.editCategory,
                     quantity |-> ui.editQuantity,
                     dateAdded |-> fromLocalDatetime(ui.zone, ui.editDateAdded)[1],
                     expiryDate |-> fromLocalDatetime(ui.zone, ui.editExpiryDate)[1]]
     IN Handling(<<[op |-> "updateFood", id |-> id, updates |-> updates],
                   [op |-> "closeEditFoodModal"]>>,
                 closeEditFoodModal(updateFood(next, id, updates)))
  /\ UNCHANGED <<ui, now>>

\* handleSave of EditFoodModal: nothing without a name (the button is
\* disabled); a RangeError (nothing dispatched) when a date field is empty;
\* else onSave(food.id, fields); onClose()
EditFormSave ==
  /\ EditReady
  /\ Trim(ui.editName) # <<>>
  /\ fromLocalDatetime(ui.zone, ui.editDateAdded) # None
  /\ fromLocalDatetime(ui.zone, ui.editExpiryDate) # None
  /\ LET id == state.editFoodModal.food[1].id
         updates == [name |-> Join(Trim(ui.editName)),
                     category |-> ui.editCategory,
                     quantity |-> AtLeastOne(ui.editQuantity),
                     dateAdded |-> fromLocalDatetime(ui.zone, ui.editDateAdded)[1],
                     expiryDate |-> fromLocalDatetime(ui.zone, ui.editExpiryDate)[1]]
     IN Handling(<<[op |-> "updateFood", id |-> id, updates |-> updates],
                   [op |-> "closeEditFoodModal"]>>,
                 closeEditFoodModal(updateFood(next, id, updates)))
  /\ UNCHANGED <<ui, now>>

\* the cancel button or the backdrop of EditFoodModal
EditFormClose ==
  /\ EditReady
  /\ Handling(<<[op |-> "closeEditFoodModal"]>>, closeEditFoodModal(next))
  /\ UNCHANGED <<ui, now>>

\* the buttons of the main view and of the context menu, once the effects of
\* the last render have run
EffectsDone == ~OpenEffectDue /\ ~DeriveEffectDue /\ ~EditEffectDue
EntryPressAddButton == EffectsDone /\ PressAddButton
EntryPressFood == EffectsDone /\ PressFood
EntryPressMenuEdit == EffectsDone /\ PressMenuEdit

\* the inventory an earlier session left: a food whose quantity the store was
\* given as 0
EntryFoods ==
  <<[id |-> generateId(StartNow - 1, <<0, DOT, 18>>), name |-> "ham", category |-> "meat",
     quantity |-> 0, compartment |-> "refrigerator-1",
     dateAdded |-> Iso(2023, 12, 30, 0, 0, 0), expiryDate |-> Iso(2024, 1, 2, 0, 0, 0)]>>

EntryInit ==
  /\ StartsFrom([foods |-> saveFoods(EntryFoods), config |-> saveFridgeConfig(CfgA)])
  /\ fn = NoCall
  /\ ui = [MountedForm("UTC") EXCEPT !.view = "modals"]

EntryNext ==
  \/ FormOpenEffect \/ FormDeriveEffect \/ EditEffect
  \/ EntryPressAddButton
  \/ FormSetName \/ FormSetQuantity \/ FormQuantityMinus \/ FormQuantityPlus
  \/ FormSave \/ FormClose
  \/ EntryPressFood \/ EntryPressMenuEdit
  \/ EditSetName \/ EditSetQuantity \/ EditQuantityMinus \/ EditQuantityPlus
  \/ EditFormSave \/ EditFormClose
  \/ Render \/ PersistFoodsEffect

EntrySpec == EntryInit /\ [][EntryNext]_vars

---------------------------------------------------------------------------
(* AddFoodModal.tsx, foodRecognition.ts: recognition from a photo *)

MaxAttempts == 2

\* recognizeFood: the promise it returns is rejected, whatever the image
recognizeFood(base64DataUrl) == [settled |-> "rejected"]

\* the photo the camera or the file gives
PhotoUrl == "data:image/jpeg;base64,AA"

\* handleRecognitionResult up to its await: recognizeFood has been called
StartRecognition(u, base64DataUrl) ==
  [u EXCEPT !.cameraOpen = FALSE,
            !.recognitionState = "recognizing",
            !.recognitionError = "",
            !.thumbnail = base64DataUrl,
            !.awaiting = u.awaiting + 1,
            !.calls = u.calls + 1]

\* the camera and upload buttons are shown and not disabled
RecognitionReady == FormReady /\ ui.recognitionState # "recognizing"

\* the camera button: setCameraOpen(true)
RecOpenCamera ==
  /\ RecognitionReady
  /\ ~ui.cameraOpen
  /\ ui' = [ui EXCEPT !.cameraOpen = TRUE]
  /\ FormKeepsStore

\* CameraCapture onClose: setCameraOpen(false)
RecCloseCamera ==
  /\ FormReady
  /\ ui.cameraOpen
  /\ ui' = [ui EXCEPT !.cameraOpen = FALSE]
  /\ FormKeepsStore

\* CameraCapture onCapture: handleRecognitionResult(photo)
RecCapture ==
  /\ FormReady
  /\ ui.cameraOpen
  /\ ui.attempts < MaxAttempts
  /\ ui' = StartRecognition([ui EXCEPT !.attempts = ui.attempts + 1], PhotoUrl)
  /\ FormKeepsStore

\* the upload button and the file input: handleFileUpload up to its first
\* await, fileToBase64 reading the file
RecPickFile ==
  /\ RecognitionReady
  /\ ui.attempts < MaxAttempts
  /\ ui' = [ui EXCEPT !.attempts = ui.attempts + 1, !.reading = ui.reading + 1]
  /\ FormKeepsStore

\* reader.onload: handleFileUpload goes on to handleRecognitionResult(base64)
RecFileRead ==
  /\ ui.reading > 0
  /\ ui' = StartRecognition([ui EXCEPT !.reading = ui.reading - 1], PhotoUrl)
  /\ FormKeepsStore

\* reader.onerror: the catch of handleFileUpload
RecFileReadFails ==
  /\ ui.reading > 0
  /\ ui' = [ui EXCEPT !.reading = ui.reading - 1,
                      !.recognitionState = "error",
                      !.recognitionError = "cannot read the photo"]
  /\ FormKeepsStore

\* the promise of recognizeFood settles: handleRecognitionResult after its
\* await (the filling of the form from a result is left to the resolved case,
\* which recognizeFood never gives)
RecSettled ==
  /\ ui.awaiting > 0
  /\ ui' = IF recognizeFood(ui.thumbnail).settled = "rejected"
           THEN [ui EXCEPT !.awaiting = ui.awaiting - 1,
                           !.recognitionState = "error",
                           !.recognitionError = "recognition failed, enter by hand",
                           !.timers = ui.timers + 1]
           ELSE [ui EXCEPT !.awaiting = ui.awaiting - 1,
                           !.expirySetByAI = TRUE,
                           !.recognitionState = "success",
                           !.timers = ui.timers + 1]
  /\ FormKeepsStore

\* a setTimeout callback: setRecognitionState('idle')
RecTimer ==
  /\ ui.timers > 0
  /\ ui' = [ui EXCEPT !.timers = ui.timers - 1, !.recognitionState = "idle"]
  /\ FormKeepsStore

RecInit ==
  /\ StoreInit
  /\ storage = [foods |-> Absent, config |-> saveFridgeConfig(CfgA)]
  /\ fn = NoCall
  /\ ui = MountedForm("UTC")

RecNext ==
  \/ FormOpenEffect \/ FormDeriveEffect
  \/ FormPressAddButton \/ FormClose
  \/ RecOpenCamera \/ RecCloseCamera \/ RecCapture
  \/ RecPickFile \/ RecFileRead \/ RecFileReadFails
  \/ RecSettled \/ RecTimer
  \/ Render \/ PersistFoodsEffect

\* renders take place, promises settle, a file read ends one way or the
\* other, timers fire; what the user does is left open (the two effects of
\* the form only ever set the recognition state to 'idle', and nothing the
\* recognition waits for depends on them)
RecognitionSpec ==
  /\ RecInit /\ [][RecNext]_vars
  /\ WF_vars(Render) /\ WF_vars(PersistFoodsEffect)
  /\ WF_vars(RecFileRead \/ RecFileReadFails)
  /\ WF_vars(RecSettled) /\ WF_vars(RecTimer)

---------------------------------------------------------------------------
(* SetupWizard, WelcomePage, TemplateSelection, CompartmentConfig,
   StyleSelection: the wizard as the user operates it *)

MaxWizardDispatch == 4
MaxRows == 2

DefaultFridgeName == "My fridge"

\* FRIDGE_TEMPLATES: id and compartmentTypes
FRIDGE_TEMPLATES ==
  <<[id |-> "two-door", compartmentTypes |-> <<"refrigerator", "freezer">>],
    [id |-> "three-door", compartmentTypes |-> <<"refrigerator", "vegetable", "freezer">>],
    [id |-> "four-door",
     compartmentTypes |-> <<"refrigerator", "variableTemp", "vegetable", "freezer">>],
    [id |-> "five-door",
     compartmentTypes |-> <<"refrigerator", "softFreeze", "vegetable", "iceMaker", "freezer">>],
    [id |-> "six-door",
     compartmentTypes |-> <<"refrigerator", "vacuum", "softFreeze", "vegetable", "iceMaker",
                            "freezer">>],
    [id |-> "custom", compartmentTypes |-> <<"refrigerator", "freezer">>]>>

\* the templates picked, the types added, the names typed and the colors picked
TemplateChoices == {1, 2}
AddChoices == {"refrigerator", "freezer"}
WizardNames == {<<>>, <<" ", "loft", " ">>}
ColorChoices == {DefaultColor, "#f4a460"}

\* the records localStorage can hold when the application starts
WizardStorage ==
  {[foods |-> Absent, config |-> c] :
     c \in {Absent, saveFridgeConfig(CfgA), saveFridgeConfig(CfgB)}}

\* existingConfig?.photo ?? null
PhotoOf(config) ==
  IF config = None THEN null ELSE Coalesce(Get(config[1], "photo"), null)

\* no SetupWizard is mounted; uploads tells whether a FileReader started by a
\* WelcomePage is still reading ("none", or "this" / "old" for one started
\* under the wizard now mounted / under one since unmounted)
WizardGone(uploads) ==
  [view |-> "wizard", mounted |-> FALSE,
   photo |-> null, selectedTypeIds |-> <<>>, compartments |-> <<>>, fridgeName |-> "",
   typeIds |-> <<>>, configName |-> <<>>,
   style |-> DefaultStyle, color |-> DefaultColor,
   uploads |-> uploads]

\* the useState values of SetupWizard when it is mounted
MountWizard(existingConfig, uploads) ==
  [WizardGone(uploads) EXCEPT
     !.mounted = TRUE,
     !.photo = PhotoOf(existingConfig),
     !.selectedTypeIds =
        IF existingConfig = None THEN <<>>
        ELSE [i \in DOMAIN existingConfig[1].compartments |->
                existingConfig[1].compartments[i].typeId],
     !.compartments = IF existingConfig = None THEN <<>> ELSE existingConfig[1].compartments,
     !.fridgeName = IF existingConfig = None THEN "" ELSE existingConfig[1].name]

\* what App renders for the state new after the state old: no wizard in the
\* main view; else the wizard, mounted now if it was not, with the component
\* of its step, whose useState values are set when it is mounted
Rendered(u, old, new) ==
  IF new.setupStep = null
  THEN WizardGone(IF u.uploads = "none" THEN "none" ELSE "old")
  ELSE LET w == IF u.mounted THEN u ELSE MountWizard(new.fridgeConfig, u.uploads)
           fresh == ~u.mounted \/ old.setupStep # new.setupStep
           shown == IF new.setupStep = "compartments" /\ fresh
                    THEN [w EXCEPT !.typeIds = w.selectedTypeIds,
                                   !.configName = IF w.fridgeName = ""
                                                  THEN <<DefaultFridgeName>>
                                                  ELSE <<w.fridgeName>>]
                    ELSE IF new.setupStep = "style" /\ fresh
                    THEN [w EXCEPT !.style = DefaultStyle, !.color = DefaultColor]
                    ELSE w
       IN [shown EXCEPT
             !.typeIds = IF new.setupStep = "compartments" THEN shown.typeIds ELSE <<>>,
             !.configName = IF new.setupStep = "compartments" THEN shown.configName ELSE <<>>,
             !.style = IF new.setupStep = "style" THEN shown.style ELSE DefaultStyle,
             !.color = IF new.setupStep = "style" THEN shown.color ELSE DefaultColor]

WizardInit ==
  /\ \E st \in WizardStorage : StartsFrom(st)
  /\ ui = Rendered(WizardGone("none"), state, state)
  /\ fn = NoCall

WizardRender == Commit /\ ui' = Rendered(ui, state, next)

\* a handler of the wizard or of the top bar runs, the render of the events
\* before it having taken place
WizardHandling(entries, s) ==
  /\ queued = 0
  /\ dispatched + Len(entries) <= MaxWizardDispatch
  /\ QueueAll(entries, s)
  /\ UNCHANGED <<now, fn>>

\* onStepChange(step)
StepChange(step) ==
  WizardHandling(<<[op |-> "setSetupStep", step |-> step]>>, setSetupStep(next, step))

\* the wizard shows the component of the step
StepShown(step) == ui.mounted /\ state.setupStep = step /\ queued = 0

\* handleTakePhoto / handleUploadPhoto
WithPhoto(u, dataUrl) ==
  [u EXCEPT !.photo = dataUrl,
            !.selectedTypeIds = <<"refrigerator", "freezer", "vegetable">>]

\* WelcomePage: capturePhoto, onTakePhoto(dataUrl)
WelcomeTakePhoto ==
  /\ StepShown("welcome")
  /\ ui' = WithPhoto(ui, PhotoUrl)
  /\ StepChange("compartments")
  /\ UNCHANGED storage

\* WelcomePage: handleUpload, the FileReader starts reading
WelcomeStartUpload ==
  /\ StepShown("welcome")
  /\ ui.uploads = "none"
  /\ ui' = [ui EXCEPT !.uploads = "this"]
  /\ FormKeepsStore

\* reader.onload: onUploadPhoto(reader.result); the setState calls of a
\* wizard since unmounted change nothing, onStepChange still reaches the store
WelcomeUploadLoaded ==
  /\ ui.uploads # "none"
  /\ ui' = IF ui.uploads = "this"
           THEN [WithPhoto(ui, PhotoUrl) EXCEPT !.uploads = "none"]
           ELSE [ui EXCEPT !.uploads = "none"]
  /\ StepChange("compartments")
  /\ UNCHANGED storage

\* the read fails: the reader has no onerror, nothing is called
WelcomeUploadFails ==
  /\ ui.uploads # "none"
  /\ ui' = [ui EXCEPT !.uploads = "none"]
  /\ FormKeepsStore

\* WelcomePage: onChooseTemplate
WelcomeChooseTemplate ==
  /\ StepShown("welcome")
  /\ StepChange("template")
  /\ UNCHANGED <<ui, storage>>

\* TemplateSelection: onSelect(template.id, template.compartmentTypes)
TemplateSelect ==
  \E k \in TemplateChoices :
    /\ StepShown("template")
    /\ ui' = [ui EXCEPT !.selectedTypeIds = FRIDGE_TEMPLATES[k].compartmentTypes]
    /\ StepChange("compartments")
    /\ UNCHANGED storage

TemplateBack ==
  /\ StepShown("template")
  /\ StepChange("welcome")
  /\ UNCHANGED <<ui, storage>>

\* CompartmentConfig: addCompartment(typeId)
ConfigAddCompartment ==
  \E typeId \in AddChoices :
    /\ StepShown("compartments")
    /\ Len(ui.typeIds) < MaxRows
    /\ ui' = [ui EXCEPT !.typeIds = Append(ui.typeIds, typeId)]
    /\ FormKeepsStore

\* CompartmentConfig: removeCompartment(index)
ConfigRemoveCompartment ==
  \E index \in DOMAIN ui.typeIds :
    /\ StepShown("compartments")
    /\ ui' = [ui EXCEPT !.typeIds = removeCompartment(ui.typeIds, index)]
    /\ FormKeepsStore

\* the rows at a and b change places
Swap(typeIds, a, b) ==
  [k \in DOMAIN typeIds |->
     IF k = a THEN typeIds[b] ELSE IF k = b THEN typeIds[a] ELSE typeIds[k]]

\* CompartmentConfig: moveUp(index), index from 1 here
ConfigMoveUp ==
  \E index \in DOMAIN ui.typeIds :
    /\ StepShown("compartments")
    /\ index > 1
    /\ ui' = [ui EXCEPT !.typeIds = Swap(ui.typeIds, index - 1, index)]
    /\ FormKeepsStore

\* CompartmentConfig: moveDown(index), index from 1 here
ConfigMoveDown ==
  \E index \in DOMAIN ui.typeIds :
    /\ StepShown("compartments")
    /\ index < Len(ui.typeIds)
    /\ ui' = [ui EXCEPT !.typeIds = Swap(ui.typeIds, index, index + 1)]
    /\ FormKeepsStore

\* CompartmentConfig: the name input
ConfigSetName ==
  \E name \in WizardNames :
    /\ StepShown("compartments")
    /\ ui' = [ui EXCEPT !.configName = name]
    /\ FormKeepsStore

\* a || '我的冰箱'
OrDefaultName(name) == IF name = "" THEN DefaultFridgeName ELSE name

\* CompartmentConfig.handleNext, then handleCompartmentsNext(instances, name)
ConfigNext ==
  /\ StepShown("compartments")
  /\ handleNext(ui.typeIds) # None
  /\ ui' = [ui EXCEPT !.compartments = handleNext(ui.typeIds)[1],
                      !.fridgeName = OrDefaultName(Join(Trim(ui.configName)))]
  /\ StepChange("style")
  /\ UNCHANGED storage

\* CompartmentConfig: onBack
ConfigBack ==
  /\ StepShown("compartments")
  /\ StepChange(IF ui.photo # null /\ ui.photo # "" THEN "welcome" ELSE "template")
  /\ UNCHANGED <<ui, storage>>

\* StyleSelection: setStyle(preset.id), setColor(c)
StylePickStyle ==
  \E style \in Styles :
    /\ StepShown("style")
    /\ ui' = [ui EXCEPT !.style = style]
    /\ FormKeepsStore

StylePickColor ==
  \E color \in ColorChoices :
    /\ StepShown("style")
    /\ ui' = [ui EXCEPT !.color = color]
    /\ FormKeepsStore

\* handleStyleFinish: the configuration passed to onFinish
WizardConfig(u) ==
  [name |-> OrDefaultName(u.fridgeName),
   compartments |-> u.compartments,
   style |-> u.style,
   color |-> u.color,
   photo |-> IF u.photo = null THEN undefined ELSE u.photo]

\* the finish button leaving the setup by setSetupStep(null)
StyleFinish_StepOnly ==
  /\ StepShown("style")
  /\ StepChange(null)
  /\ UNCHANGED <<ui, storage>>

\* StyleSelection: onFinish(style, color), handleStyleFinish, finishSetup(config)
StyleFinish ==
  /\ StepShown("style")
  /\ WizardHandling(<<[op |-> "finishSetup", config |-> WizardConfig(ui)]>>,
                    finishSetup(next, WizardConfig(ui)))
  /\ storage' = finishSetupStorage(storage, WizardConfig(ui))
  /\ UNCHANGED ui

StyleBack ==
  /\ StepShown("style")
  /\ StepChange("compartments")
  /\ UNCHANGED <<ui, storage>>

\* TopBar: the settings button, onSettings
PressSettings ==
  /\ MainShown
  /\ WizardHandling(<<[op |-> "enterSettings"]>>, enterSettings(next))
  /\ UNCHANGED <<ui, storage>>

WizardNext ==
  \/ WelcomeTakePhoto \/ WelcomeStartUpload \/ WelcomeUploadLoaded \/ WelcomeUploadFails
  \/ WelcomeChooseTemplate
  \/ TemplateSelect \/ TemplateBack
  \/ ConfigAddCompartment \/ ConfigRemoveCompartment \/ ConfigMoveUp \/ ConfigMoveDown
  \/ ConfigSetName \/ ConfigNext \/ ConfigBack
  \/ StylePickStyle \/ StylePickColor \/ StyleFinish \/ StyleBack
  \/ PressSettings
  \/ WizardRender \/ PersistFoodsEffect

WizardSpec == WizardInit /\ [][WizardNext]_vars

---------------------------------------------------------------------------
(* Properties *)

\* nothing is queued and no effect is pending
Settled == queued = 0 /\ ~effectPending

\* the step dispatches the action op
Dispatches(op) == dispatched' = dispatched + 1 /\ last'.op = op

DistinctIds(foods) ==
  \A i, j \in DOMAIN foods : i # j => foods[i].id # foods[j].id

\* deep equality of two nullable configurations, a missing property and a
\* property holding undefined being the same
ConfigEqual(a, b) ==
  /\ (a = None) <=> (b = None)
  /\ a # None =>
       \A k \in DOMAIN a[1] \cup DOMAIN b[1] : Get(a[1], k) = Get(b[1], k)

\* C1: after any sequence of addFood calls, interleaved with any other store
\* actions, the items of the inventory have pairwise-distinct identifiers.
C1_DistinctIds == DistinctIds(next.foods) /\ DistinctIds(state.foods)

C3_BothRecordsCleared ==
  (last.op = "resetFridge" /\ Settled)
  => (storage.foods.kind = "absent" /\ storage.config.kind = "absent")

ResetState(s) ==
  /\ s.fridgeConfig = None
  /\ s.foods = <<>>
  /\ s.setupStep = "welcome"
  /\ DOMAIN s.openDoors = {}
  /\ s.sidebarOpen = FALSE
  /\ s.cameraView = "default"
  /\ s.addFoodModal = [open |-> FALSE, compartment |-> null]
  /\ s.editFoodModal = [open |-> FALSE, food |-> None]
  /\ s.contextMenu = [open |-> FALSE, food |-> None, x |-> 0, y |-> 0]
  /\ s.style = "modern"
  /\ s.fridgeColor = "#e8e8e8"

C6_ResetYieldsDefaults ==
  last.op = "resetFridge" => (ResetState(next) /\ (queued = 0 => ResetState(state)))

C6_Witness ==
  /\ last.op = "resetFridge"
  /\ queued = 1
  /\ state.fridgeConfig # None
  /\ Len(state.foods) > 0
  /\ \E c \in DOMAIN state.openDoors : state.openDoors[c]

\* C7: finishSetup(config) writes config to the configuration record, sets
\* fridgeConfig = config, leaves setup, sets the active style and color to
\* those of config and sets openDoors to exactly the map from each compartment
\* identifier of config to closed, discarding the door keys of a previous
\* configuration.
C7_FinishSetup ==
  last.op = "finishSetup" =>
    LET config == last.config
        ids == {config.compartments[i].id : i \in DOMAIN config.compartments}
    IN /\ storage.config.kind = "json"
       /\ ConfigEqual(storage.config.val, Some(config))
       /\ next.fridgeConfig = Some(config)
       /\ next.setupStep = null
       /\ next.style = config.style
       /\ next.fridgeColor = config.color
       /\ DOMAIN next.openDoors = ids
       /\ \A c \in ids : next.openDoors[c] = FALSE

C7_Witness ==
  /\ last.op = "finishSetup"
  /\ last.config = CfgB
  /\ "refrigerator-1" \in DOMAIN state.openDoors
  /\ state.openDoors["refrigerator-1"]
  /\ "refrigerator-1" \notin DOMAIN next.openDoors

\* C8: finishSetup(config) followed by toggleDoor(config.compartments[0].id)
\* yields a state where that door flag is true and the door flag of every
\* other compartment of config is false.
C8_FirstDoorOpen ==
  [][(Dispatches("toggleDoor") /\ last.op = "finishSetup"
        /\ last'.compartment = last.config.compartments[1].id)
     => \A i \in DOMAIN last.config.compartments :
          LET c == last.config.compartments[i].id
          IN /\ c \in DOMAIN next'.openDoors
             /\ next'.openDoors[c] = (c = last'.compartment)]_vars

C8_Witness ==
  /\ last = [op |-> "toggleDoor", compartment |-> "refrigerator-1"]
  /\ queued = 2
  /\ state.fridgeConfig = None
  /\ next.fridgeConfig = Some(CfgA)
  /\ next.openDoors["refrigerator-1"] = TRUE
  /\ next.openDoors["freezer-1"] = FALSE

\* C9: deleteFood(id) after deleteFood(id) leaves the inventory as the first
\* call left it, and deleteFood of an id that matches no item leaves the
\* inventory (items and order) unchanged.
C9_DeleteIdempotent ==
  [][Dispatches("deleteFood") =>
       /\ last'.id \notin IdsOf(next'.foods)
       /\ last'.id \notin IdsOf(next.foods) => next'.foods = next.foods
       /\ (last.op = "deleteFood" /\ last.id = last'.id) => next'.foods = next.foods]_vars

C9_Witness ==
  /\ last.op = "deleteFood"
  /\ dispatched = 2
  /\ queued = 1
  /\ last.id = StoredFoods[1].id
  /\ state.foods = Tail(StoredFoods)
  /\ next.foods = state.foods

\* C10: updateFood(id, fields) with an id that matches no item raises no
\* error and leaves the inventory (items, field values, order) unchanged.
C10_UpdateMissingIsNoOp ==
  [][(Dispatches("updateFood") /\ last'.id \notin IdsOf(next.foods))
     => next'.foods = next.foods]_vars

C10_Witness ==
  /\ last.op = "updateFood"
  /\ last.id = MissingId
  /\ queued = 1
  /\ Len(state.foods) > 0
  /\ next.foods = state.foods

\* the shelf lives the specification lists, in days
ListedDays ==
  [c \in FoodCategories |->
     CASE c = "meat" -> 3 [] c = "seafood" -> 2 [] c = "vegetable" -> 7
       [] c = "fruit" -> 5 [] c = "drink" -> 30 [] c = "dairy" -> 7
       [] c = "leftover" -> 3 [] c = "sauce" -> 60 [] c = "other" -> 7]

\* the local time the default expiry aims at
ExpiryTarget == LocalTime(fn.zone, ParseIso(fn.dateAdded)) + ListedDays[fn.category] * SecondsPerDay

\* no instant of the zone has the local time tl
SkippedLocal(zone, tl) == \A o \in ZoneOffsets(zone) : ZoneOffset(zone, tl - o) # o

\* C12 as stated: for every category c and date-added d,
\* getDefaultExpiryDate(c, d) is d advanced by exactly the listed number of
\* calendar days of c, with the (local) time of day unchanged.
C12_Original ==
  fn.op = "getDefaultExpiryDate" =>
    LocalTime(fn.zone, ParseIso(fn.result)) = ExpiryTarget

\* C12: getDefaultExpiryDate(c, d) is d advanced by the listed number of local
\* calendar days of c; the local time of day is unchanged unless that local
\* time is skipped by a daylight-saving transition on the expiry day, where it
\* is moved forward by the skipped hour; of a repeated local time the result
\* is the first occurrence.
C12_DefaultExpiryLocalDays ==
  fn.op = "getDefaultExpiryDate" =>
    /\ LocalTime(fn.zone, ParseIso(fn.result)) =
         ExpiryTarget + (IF SkippedLocal(fn.zone, ExpiryTarget) THEN SecondsPerHour ELSE 0)
    /\ \A o \in ZoneOffsets(fn.zone) :
         ZoneOffset(fn.zone, ExpiryTarget - o) = o => ParseIso(fn.result) <= ExpiryTarget - o

\* seafood added at 02:30 New York time on 8 March 2024 expires at 03:30 on
\* 10 March, the day the clocks go forward
C12_Witness ==
  fn = [op |-> "getDefaultExpiryDate", zone |-> "America/New_York", category |-> "seafood",
        dateAdded |-> Iso(2024, 3, 8, 7, 30, 0), result |-> Iso(2024, 3, 10, 7, 30, 0)]

\* C13: createCompartmentInstances(typeIds) has the length and order of
\* typeIds; its k-th element has the k-th type id and the id '<type>-<n>' with
\* n the number of occurrences of that type up to and including position k.
C13_InstancesNumberedPerType ==
  fn.op = "createCompartmentInstances" =>
    /\ Len(fn.result) = Len(fn.typeIds)
    /\ \A k \in 1..Len(fn.typeIds) :
         /\ fn.result[k].typeId = fn.typeIds[k]
         /\ fn.result[k].id =
              fn.typeIds[k] \o "-" \o
                ToString(Cardinality({j \in 1..k : fn.typeIds[j] = fn.typeIds[k]}))

C13_Witness ==
  /\ fn.op = "createCompartmentInstances"
  /\ fn.typeIds = <<"refrigerator", "freezer", "refrigerator">>
  /\ fn.result = <<[id |-> "refrigerator-1", typeId |-> "refrigerator"],
                   [id |-> "freezer-1", typeId |-> "freezer"],
                   [id |-> "refrigerator-2", typeId |-> "refrigerator"]>>

\* C14: getCompartmentLabel(id, config) is the display name of the type of
\* the instance with that id when config holds one; otherwise, with a
\* trailing '-<digits>' cut from the id, the display name of the known type of
\* that name; otherwise the id unchanged.
C14_LabelOrRawId ==
  fn.op = "getCompartmentLabel" =>
    LET id == Join(fn.instanceId)
        held == IF fn.config = None THEN {}
                ELSE {c \in Range(fn.config[1].compartments) : c.id = id}
        typeId == Join(StripOrdinal(fn.instanceId))
        known == {CompartmentTypeIds[i] : i \in DOMAIN CompartmentTypeIds}
    IN IF held # {}
       THEN \E c \in held : fn.result = COMPARTMENT_TYPES[c.typeId].name
       ELSE IF typeId \in known THEN fn.result = COMPARTMENT_TYPES[typeId].name
       ELSE fn.result = id

\* C15: at start, a configuration record that is missing or cannot be parsed
\* loads as absent and the application is in first-time setup (no
\* configuration, setup step "welcome"); an inventory record that is missing
\* or cannot be parsed loads as the empty inventory.
C15_MissingRecordsLoadAsEmpty ==
  dispatched = 0 =>
    /\ storage.config.kind \in {"absent", "corrupt"} =>
         /\ loadFridgeConfig(storage) = None
         /\ state.fridgeConfig = None
         /\ state.setupStep = "welcome"
    /\ (effectPending /\ storage.foods.kind \in {"absent", "corrupt"}) =>
         /\ loadFoods(storage) = <<>>
         /\ state.foods = <<>>

C15_Witness ==
  /\ dispatched = 0
  /\ effectPending
  /\ storage = [foods |-> Absent, config |-> Corrupt]
  /\ state.fridgeConfig = None
  /\ state.setupStep = "welcome"
  /\ state.foods = <<>>

\* C16: finishSetup with any new configuration leaves the inventory as it is;
\* and a food whose compartment id is not in the current configuration is in
\* the inventory while no compartment section shows it.
C16_FinishSetupKeepsInventory ==
  /\ [](\A i \in DOMAIN state.foods :
          state.foods[i].compartment \notin ConfiguredCompartments(state) =>
            \A k \in DOMAIN CompartmentSections(state) :
              state.foods[i] \notin Range(CompartmentSections(state)[k].foods))
  /\ [][Dispatches("finishSetup") => next'.foods = next.foods]_vars

C16_Witness ==
  /\ last.op = "finishSetup"
  /\ Settled
  /\ state.fridgeConfig = Some(CfgB)
  /\ state.foods = StoredFoods
  /\ state.foods[1].compartment \notin ConfiguredCompartments(state)
  /\ Len(CompartmentSections(state)) = 1
  /\ CompartmentSections(state)[1].foods = <<StoredFoods[2]>>

\* the step leaves the queued state as it is but for the given fields
OnlyChanges(fields) ==
  \A f \in DOMAIN next : f \notin fields => next'[f] = next[f]

\* C17: setSetupStep(step) changes no field other than setupStep and never
\* takes the system out of setup; only finishSetup takes it out of setup.
C17_SetSetupStepStaysInSetup ==
  [][/\ Dispatches("setSetupStep") =>
          /\ OnlyChanges({"setupStep"})
          /\ DOMAIN next' = DOMAIN next
          /\ next.setupStep # null => next'.setupStep # null
     /\ (next.setupStep # null /\ next'.setupStep = null) => last'.op = "finishSetup"]_vars

\* C19: after openEditFoodModal(food), from any state, the edit overlay is
\* open with that food and the context menu is closed with no food and
\* position 0, 0; the add-food overlay and every other field are unchanged.
C19_OpenEditClosesContextMenu ==
  [][Dispatches("openEditFoodModal") =>
       /\ next'.editFoodModal = [open |-> TRUE, food |-> Some(last'.food)]
       /\ next'.contextMenu = [open |-> FALSE, food |-> None, x |-> 0, y |-> 0]
       /\ next'.addFoodModal = next.addFoodModal
       /\ OnlyChanges({"editFoodModal", "contextMenu"})
       /\ DOMAIN next' = DOMAIN next]_vars

\* the edit overlay is opened for a food from its open context menu
C19_Witness ==
  /\ last.op = "openEditFoodModal"
  /\ queued = 1
  /\ state.contextMenu.open
  /\ state.contextMenu.food = Some(last.food)
  /\ ~next.contextMenu.open
  /\ next.contextMenu.food = None
  /\ next.editFoodModal = [open |-> TRUE, food |-> Some(last.food)]

\* C20: updateFood(id, fields) with an id the inventory holds changes only
\* the listed fields of the item of that id: its id, its position and its
\* other fields, the items of other ids, and the length of the inventory are
\* unchanged.
C20_UpdateChangesListedFieldsOnly ==
  [][(Dispatches("updateFood") /\ last'.id \in IdsOf(next.foods)) =>
       /\ Len(next'.foods) = Len(next.foods)
       /\ \A i \in DOMAIN next.foods :
            IF next.foods[i].id = last'.id
            THEN /\ DOMAIN next'.foods[i] = DOMAIN next.foods[i]
                 /\ next'.foods[i].id = last'.id
                 /\ \A k \in DOMAIN next.foods[i] :
                      next'.foods[i][k] = IF k \in DOMAIN last'.updates
                                           THEN last'.updates[k] ELSE next.foods[i][k]
            ELSE next'.foods[i] = next.foods[i]]_vars

C20_Witness ==
  /\ last = [op |-> "updateFood", id |-> StoredFoods[1].id,
             updates |-> [name |-> "oat milk", quantity |-> 3]]
  /\ state.foods = StoredFoods
  /\ next.foods = <<[StoredFoods[1] EXCEPT !.name = "oat milk", !.quantity = 3],
                    StoredFoods[2]>>

\* C18: in every state the handlers of the views lead to (the add overlay
\* opened from a compartment's add button, the edit overlay from the context
\* menu of a food, each closed by its own save or cancel), the add-food and
\* the edit-food overlay are not both open.
C18_OverlaysNotBothOpen ==
  ~(state.addFoodModal.open /\ state.editFoodModal.open)

\* the step appends a food to the inventory
AppendsFood == Len(next'.foods) = Len(next.foods) + 1
AppendedFood == next'.foods[Len(next'.foods)]

\* the default expiry of the appended food, in the host zone
AppendedFoodHasDefaultExpiry ==
  /\ "expiryDate" \in DOMAIN AppendedFood
  /\ AppendedFood.expiryDate =
       getDefaultExpiryDate(ui.zone, AppendedFood.category, AppendedFood.dateAdded)
  /\ LocalTime(ui.zone, ParseIso(AppendedFood.expiryDate)) \in
       {LocalTime(ui.zone, ParseIso(AppendedFood.dateAdded))
          + ListedDays[AppendedFood.category] * SecondsPerDay + skipped :
        skipped \in {0, SecondsPerHour}}

\* C11 as stated: a food created by the add-food action without an explicit
\* expiry, be it addFood called without expiryDate or the overlay saved with
\* the expiry field not typed into, is stored with expiryDate = dateAdded +
\* the default shelf life of its category.
C11_Original ==
  [][(/\ AppendsFood
      /\ \/ last'.op = "addFood" /\ "expiryDate" \notin DOMAIN last'.food
         \/ last'.op = "closeAddFoodModal" /\ ~ui.expiryTyped)
     => AppendedFoodHasDefaultExpiry]_vars

\* C11: a food saved from the add-food overlay with the expiry field not
\* typed into since it was last derived is stored with expiryDate =
\* getDefaultExpiryDate(category, dateAdded) of its stored category and
\* dateAdded; addFood itself derives nothing: it stores the fields it is
\* given and no expiryDate when it is given none.
C11_OverlayDerivesDefaultExpiry ==
  [][/\ (AppendsFood /\ last'.op = "closeAddFoodModal" /\ ~ui.expiryTyped)
          => AppendedFoodHasDefaultExpiry
     /\ (AppendsFood /\ last'.op = "addFood")
          => AppendedFood = WithId(last'.food, last'.id)]_vars

\* meat saved from the overlay with date-added 2024-01-01T00:00:00Z and the
\* expiry field untouched is stored with expiry 2024-01-04T00:00:00Z
C11_Witness ==
  /\ last.op = "closeAddFoodModal"
  /\ ~ui.expiryTyped
  /\ Len(next.foods) = 1
  /\ "expiryDate" \in DOMAIN next.foods[1]
  /\ next.foods[1].category = "meat"
  /\ next.foods[1].dateAdded = Iso(2024, 1, 1, 0, 0, 0)
  /\ next.foods[1].expiryDate = Iso(2024, 1, 4, 0, 0, 0)
  /\ next.foods[1].name = "ham"

\* the door of c is open in s, a missing key counting as closed
DoorOpen(s, c) == c \in DOMAIN s.openDoors /\ s.openDoors[c]

\* C21: toggleDoor(c) sets the door flag of c to the negation of its current
\* value, a missing key counting as closed, and leaves the flag of every
\* other compartment and every other field unchanged; a second toggleDoor(c)
\* right after the first leaves the door of c open or closed as it was.
C21_ToggleDoorFlipsOneFlag ==
  [][/\ Dispatches("toggleDoor") =>
          /\ last'.compartment \in DOMAIN next'.openDoors
          /\ next'.openDoors[last'.compartment] = ~DoorOpen(next, last'.compartment)
          /\ DOMAIN next'.openDoors = DOMAIN next.openDoors \cup {last'.compartment}
          /\ \A c \in DOMAIN next.openDoors \ {last'.compartment} :
               next'.openDoors[c] = next.openDoors[c]
          /\ OnlyChanges({"openDoors"})
     /\ (/\ Dispatches("toggleDoor")
         /\ queued = 1
         /\ last.op = "toggleDoor"
         /\ last.compartment = last'.compartment)
          => DoorOpen(next', last'.compartment) = DoorOpen(state, last'.compartment)]_vars

\* two toggles of a door that had no flag: the first opened it, the second
\* closed it
C21_Witness ==
  /\ last = [op |-> "toggleDoor", compartment |-> "freezer-1"]
  /\ queued = 2
  /\ DOMAIN state.openDoors = {}
  /\ next.openDoors = [c \in {"freezer-1"} |-> FALSE]

\* the actions that touch neither the inventory nor the configuration
DisplayActions ==
  {"toggleDoor", "setFridgeColor", "setStyle", "toggleSidebar", "setCameraView",
   "setSetupStep", "enterSettings",
   "openAddFoodModal", "closeAddFoodModal", "openEditFoodModal", "closeEditFoodModal",
   "openContextMenu", "closeContextMenu"}

\* C28: toggleDoor, setFridgeColor, setStyle, toggleSidebar, setCameraView,
\* setSetupStep, enterSettings and the six overlay actions change neither the
\* inventory nor the configuration in memory, write to neither stored record,
\* and give the render after them no reason to write the inventory record.
C28_DisplayActionsKeepData ==
  [][(dispatched' = dispatched + 1 /\ last'.op \in DisplayActions) =>
       /\ next'.foods = next.foods
       /\ next'.fridgeConfig = next.fridgeConfig
       /\ storage' = storage
       /\ foodsChanged' = foodsChanged]_vars

\* enterSettings rendered, with both records as they were stored before
C28_Witness ==
  /\ last.op = "enterSettings"
  /\ Settled
  /\ dispatched = 1
  /\ state.setupStep = "welcome"
  /\ state.foods = StoredFoods
  /\ ConfigEqual(state.fridgeConfig, Some(CfgA))
  /\ storage = [foods |-> saveFoods(StoredFoods), config |-> saveFridgeConfig(CfgA)]

\* C29: the style and color set by setStyle and setFridgeColor are not
\* stored: whatever they were set to, starting again from storage gives the
\* style and color of the configuration in memory, which finishSetup stored,
\* and 'modern' and '#e8e8e8' when no configuration is stored.
C29_RestartYieldsConfigStyle ==
  LET restarted == buildInitialState(storage)
  IN /\ next.fridgeConfig # None =>
          /\ restarted.style = next.fridgeConfig[1].style
          /\ restarted.fridgeColor = next.fridgeConfig[1].color
     /\ storage.config.kind # "json" =>
          /\ restarted.style = DefaultStyle
          /\ restarted.fridgeColor = DefaultColor

\* finishSetup(CfgA), then setStyle to a style other than that of CfgA
C29_Witness ==
  /\ last = [op |-> "setStyle", style |-> "cute"]
  /\ dispatched = 2
  /\ next.fridgeConfig = Some(CfgA)
  /\ state.fridgeConfig = None
  /\ next.style = "cute"
  /\ buildInitialState(storage).style = "retro"
  /\ buildInitialState(storage).fridgeColor = CfgA.color

\* the updater of a dispatched action applied to s
Apply(entry, s) ==
  CASE entry.op = "toggleDoor" -> toggleDoor(s, entry.compartment)
    [] entry.op = "setFridgeColor" -> setFridgeColor(s, entry.color)
    [] entry.op = "setStyle" -> setStyle(s, entry.style)
    [] entry.op = "toggleSidebar" -> toggleSidebar(s)
    [] entry.op = "setCameraView" -> setCameraView(s, entry.view)
    [] entry.op = "addFood" -> addFood(s, entry.food, entry.id)
    [] entry.op = "updateFood" -> updateFood(s, entry.id, entry.updates)
    [] entry.op = "deleteFood" -> deleteFood(s, entry.id)
    [] entry.op = "openAddFoodModal" -> openAddFoodModal(s, entry.compartment)
    [] entry.op = "closeAddFoodModal" -> closeAddFoodModal(s)
    [] entry.op = "openEditFoodModal" -> openEditFoodModal(s, entry.food)
    [] entry.op = "closeEditFoodModal" -> closeEditFoodModal(s)
    [] entry.op = "openContextMenu" -> openContextMenu(s, entry.food, entry.x, entry.y)
    [] entry.op = "closeContextMenu" -> closeContextMenu(s)
    [] entry.op = "setSetupStep" -> setSetupStep(s, entry.step)
    [] entry.op = "finishSetup" -> finishSetup(s, entry.config)
    [] entry.op = "enterSettings" -> enterSettings(s)
    [] entry.op = "resetFridge" -> resetFridge(s)

\* C23: an action dispatched while others wait for the render acts on the
\* result of those before it, in dispatch order, and the render commits the
\* result of the last: the batch gives what the actions give one at a time,
\* each on the settled result of the one before.
C23_BatchEqualsSequence ==
  [][/\ dispatched' = dispatched + 1 => next' = Apply(last', next)
     /\ queued = 0 => next = state
     /\ (queued > 0 /\ queued' = 0) => state' = next]_vars

\* two deleteFood of different items in one batch: both items are gone
C23_Witness ==
  /\ queued = 2
  /\ last = [op |-> "deleteFood", id |-> StoredFoods[2].id]
  /\ state.foods = StoredFoods
  /\ next.foods = <<>>

\* a food kept in the compartment of the given id
FoodIn(id) ==
  [id |-> id, name |-> "ham", category |-> "meat", quantity |-> 1, compartment |-> id,
   dateAdded |-> "2023-12-30T00:00:00.000Z", expiryDate |-> "2024-01-02T00:00:00.000Z"]

\* C26: when one compartment of the existing configuration is removed in the
\* compartments step and the others are kept, every kept compartment has the
\* identifier it had before, so that, with a food in every compartment of the
\* existing configuration, each kept compartment's section shows exactly its
\* own food and the food of the removed compartment is shown in no section.
C26_KeptCompartmentsKeepIds ==
  (fn.op = "removeCompartment" /\ fn.result # None) =>
    LET kept == [k \in 1..(Len(fn.existing) - 1) |->
                   IF k < fn.index THEN fn.existing[k] ELSE fn.existing[k + 1]]
        foods == [k \in DOMAIN fn.existing |-> FoodIn(fn.existing[k].id)]
        groups == foodsByCompartment(fn.result[1], foods)
    IN /\ Len(fn.result[1]) = Len(kept)
       /\ \A k \in DOMAIN kept :
            /\ fn.result[1][k].id = kept[k].id
            /\ groups[fn.result[1][k].id] = <<FoodIn(kept[k].id)>>

\* C30: a finishSetup whose write of the configuration record throws changes
\* neither the state (rendered or queued) nor the stored records.
C30_FailedFinishSetupChangesNothing ==
  [][(dispatched' = dispatched + 1 /\ last'.op = "finishSetup" /\ "threw" \in DOMAIN last') =>
       /\ state' = state
       /\ next' = next
       /\ queued' = queued
       /\ storage' = storage]_vars

\* a first setup whose write failed: still in setup, nothing configured or stored
C30_Witness ==
  /\ last = [op |-> "finishSetup", config |-> CfgA, threw |-> TRUE]
  /\ dispatched = 1
  /\ state.setupStep = "welcome"
  /\ next.fridgeConfig = None
  /\ DOMAIN next.openDoors = {}
  /\ next.style = DefaultStyle
  /\ next.fridgeColor = DefaultColor
  /\ storage.config = Absent

\* C24: no recognition attempt reaches 'success'; recognizeFood is called at
\* most once for an attempt; and whenever the recognition state is not
\* 'idle' it is 'idle' again later, without anything the user does.
C24_RecognitionFailsBackToIdle ==
  /\ [](ui.recognitionState # "success")
  /\ [](ui.calls <= ui.attempts)
  /\ (ui.recognitionState # "idle") ~> (ui.recognitionState = "idle")

\* the step is a save of the add form / of the edit form
AddFormSaved == dispatched' = dispatched + 2 /\ last'.op = "closeAddFoodModal"
EditFormSaved == dispatched' = dispatched + 2 /\ last'.op = "closeEditFoodModal"

\* the name is what is left of the typed pieces after trimming, and is not empty
TrimmedNameOf(name, pieces) ==
  LET t == Trim(pieces)
  IN t # <<>> /\ Head(t) # " " /\ t[Len(t)] # " " /\ name = Join(t) /\ name # ""

\* C25: the inventory changes only when one of the two forms is saved; a
\* save of the add form appends a food whose name is the typed name trimmed,
\* not empty, and whose quantity is at least 1; a save of the edit form
\* leaves the edited food with such a name and quantity; hence no save
\* happens while the typed name is empty or white space.
C25_OverlaysSaveNamedCountedFoods ==
  [][/\ next'.foods # next.foods => AddFormSaved \/ EditFormSaved
     /\ AddFormSaved =>
          /\ AppendsFood
          /\ TrimmedNameOf(AppendedFood.name, ui.name)
          /\ AppendedFood.quantity >= 1
     /\ EditFormSaved =>
          /\ Trim(ui.editName) # <<>>
          /\ \A i \in DOMAIN next'.foods :
               next'.foods[i].id = state.editFoodModal.food[1].id =>
                 /\ TrimmedNameOf(next'.foods[i].name, ui.editName)
                 /\ next'.foods[i].quantity >= 1]_vars

\* the stored food of quantity 0, renamed " ham " in the edit form and saved
C25_Witness ==
  /\ last.op = "closeEditFoodModal"
  /\ queued = 2
  /\ ui.editName = <<" ", "ham", " ">>
  /\ ui.editQuantity = 0
  /\ state.foods = EntryFoods
  /\ Len(next.foods) = 1
  /\ next.foods[1].name = "ham"
  /\ next.foods[1].quantity = 1

\* C22: every configuration the wizard passes to finishSetup has at least
\* one compartment, and no two of its compartments have the same identifier.
C22_WizardConfigsHaveDistinctCompartments ==
  last.op = "finishSetup" =>
    LET c == last.config.compartments
    IN /\ Len(c) > 0
       /\ \A i, j \in DOMAIN c : i # j => c[i].id # c[j].id

\* the setup run again from the settings with a configuration in place: a
\* photo, the rows changed to two of one type, and the finish button
C22_Witness ==
  /\ last.op = "finishSetup"
  /\ state.fridgeConfig # None
  /\ state.setupStep = "style"
  /\ last.config.photo = PhotoUrl
  /\ \E i, j \in DOMAIN last.config.compartments :
       i # j /\ last.config.compartments[i].typeId = last.config.compartments[j].typeId

\* C27: whenever the setup step is null, rendered or queued, a configuration
\* is present.
C27_MainViewHasConfiguration ==
  /\ state.setupStep = null => state.fridgeConfig # None
  /\ next.setupStep = null => next.fridgeConfig # None

\* a first setup gone through to its end: the main view is shown, configured
C27_Witness ==
  /\ last.op = "finishSetup"
  /\ queued = 0
  /\ storage.config = saveFridgeConfig(last.config)
  /\ state.setupStep = null
  /\ ConfigEqual(state.fridgeConfig, Some(last.config))
  /\ dispatched = 4

====
